---- MODULE Spec2Model ----
(***************************************************************************)
(* VLAN island detection (vlan_islands/analyzer.py) over a topology of     *)
(* devices, physical links and VLAN member lists (vlan_islands/models.py). *)
(*                                                                         *)
(* State: the analyzer's topology, its indexes, the lazily built physical  *)
(* graph cache, and the last public call: its name, its argument, whether  *)
(* the cache was already built when it started, and the value it returned. *)
(***************************************************************************)
EXTENDS Integers, Sequences, FiniteSets, TLC

VARIABLES topology, _vlan_index, _physical_graph, ret

vars == <<topology, _vlan_index, _physical_graph, ret>>

(***************************************************************************)
(* Bounds of the model.                                                    *)
(***************************************************************************)
NumDevices == 3
MaxLinks == 2
MaxVlans == 2

(***************************************************************************)
(* Identifiers.  DeviceIds are the devices of the topology in list order;  *)
(* Ghost is an identifier that no Device record carries (a dangling        *)
(* reference when a VLAN member list or a link names it).  AbsentVlan is a *)
(* VLAN id that no topology of the model contains.                         *)
(***************************************************************************)
DeviceIds == [i \in 1..NumDevices |-> "sw" \o ToString(i)]
Ghost == "ghost"
AllIds == {DeviceIds[i] : i \in 1..NumDevices} \cup {Ghost}
VlanIdAt(k) == 100 * k
AbsentVlan == VlanIdAt(MaxVlans + 1)

(***************************************************************************)
(* Python's Optional: None is the empty tuple, a present value x is <<x>>. *)
(***************************************************************************)
None == <<>>
Some(x) == <<x>>

Range(s) == {s[i] : i \in 1..Len(s)}
Contains(s, x) == \E i \in 1..Len(s) : s[i] = x

(***************************************************************************)
(* networkx.Graph: nodes in insertion order, adjacency lists in insertion  *)
(* order.  add_node and add_edge are no-ops on what is already present;    *)
(* add_edge creates endpoints that are not nodes yet.                      *)
(***************************************************************************)
EmptyGraph == [nodes |-> <<>>, adj |-> <<>>]

NodeIndex(graph, n) == CHOOSE i \in 1..Len(graph.nodes) : graph.nodes[i] = n

neighbors(graph, n) == graph.adj[NodeIndex(graph, n)]

add_node(graph, n) ==
    IF Contains(graph.nodes, n) THEN graph
    ELSE [nodes |-> Append(graph.nodes, n), adj |-> Append(graph.adj, <<>>)]

add_half_edge(graph, u, v) ==
    IF Contains(neighbors(graph, u), v) THEN graph
    ELSE [graph EXCEPT !.adj[NodeIndex(graph, u)] = Append(@, v)]

add_edge(graph, u, v) ==
    add_half_edge(add_half_edge(add_node(add_node(graph, u), v), u, v), v, u)

(* Variant: the nodes are restricted, their adjacency lists are not.       *)
subgraph_keeping_outside_edges(graph, nbunch) ==
    LET keep == SelectSeq(graph.nodes, LAMBDA n : n \in nbunch)
    IN  [nodes |-> keep,
         adj   |-> [i \in 1..Len(keep) |-> neighbors(graph, keep[i])]]

(* Variant: the nodes are kept and every edge is dropped.                  *)
subgraph_without_edges(graph, nbunch) ==
    LET keep == SelectSeq(graph.nodes, LAMBDA n : n \in nbunch)
    IN  [nodes |-> keep, adj |-> [i \in 1..Len(keep) |-> <<>>]]

(* G.subgraph(nbunch).copy(): the nodes of G that are in nbunch and the    *)
(* edges of G between them.                                                *)
subgraph(graph, nbunch) ==
    LET keep == SelectSeq(graph.nodes, LAMBDA n : n \in nbunch)
        filt(nbrs) == SelectSeq(nbrs, LAMBDA m : m \in nbunch)
    IN  [nodes |-> keep,
         adj   |-> [i \in 1..Len(keep) |-> filt(neighbors(graph, keep[i]))]]

(***************************************************************************)
(* VLANIslandAnalyzer._build_physical_graph                                *)
(***************************************************************************)
(* Holds of every graph; testing it makes the graph of one step a value    *)
(* before the next step starts from it.                                    *)
Built(graph) == Len(graph.nodes) >= 0

RECURSIVE add_devices(_, _, _)
add_devices(graph, devices, i) ==
    IF i > Len(devices) THEN graph
    ELSE LET added == add_node(graph, devices[i])
         IN  IF Built(added) THEN add_devices(added, devices, i + 1) ELSE graph

RECURSIVE add_links(_, _, _)
add_links(graph, links, i) ==
    IF i > Len(links) THEN graph
    ELSE LET added == add_edge(graph, links[i].source, links[i].target)
         IN  IF Built(added) THEN add_links(added, links, i + 1) ELSE graph

_build_physical_graph(topo) ==
    add_links(add_devices(EmptyGraph, topo.devices, 1), topo.links, 1)

(* Variant: the first access hands out the graph before its links are     *)
(* added; later accesses see the links.                                    *)
physical_graph_links_late(cache, topo) ==
    IF cache = None THEN add_devices(EmptyGraph, topo.devices, 1)
    ELSE _build_physical_graph(topo)

(* Variant: every access builds the graph anew.                            *)
physical_graph_rebuilt(cache, topo) == _build_physical_graph(topo)

(* The physical_graph property: build on first access, then reuse.        *)
physical_graph(cache, topo) ==
    IF cache = None THEN _build_physical_graph(topo) ELSE cache[1]

(***************************************************************************)
(* VLANIslandAnalyzer._get_vlan_subgraph                                   *)
(***************************************************************************)
(* Variant: the projection keeps every node of the physical graph.         *)
_get_vlan_subgraph_all_nodes(graph, vlan) == graph

_get_vlan_subgraph(graph, vlan) ==
    LET vlan_devices == Range(vlan.devices)
    IN  subgraph(graph, vlan_devices)

(***************************************************************************)
(* VLANIslandAnalyzer._find_connected_components: recursive depth-first    *)
(* search sharing one visited set; st = [visited, component].              *)
(***************************************************************************)
(* Variant: the search marks the start node and never descends.            *)
dfs_without_descent(graph, node, st) ==
    [visited   |-> st.visited \cup {node},
     component |-> st.component \cup {node}]

RECURSIVE dfs(_, _, _)
RECURSIVE dfs_neighbors(_, _, _, _)
dfs(graph, node, st) ==
    dfs_neighbors(graph, neighbors(graph, node), 1,
                  [visited   |-> st.visited \cup {node},
                   component |-> st.component \cup {node}])

dfs_neighbors(graph, nbrs, i, st) ==
    IF i > Len(nbrs) THEN st
    ELSE IF nbrs[i] \notin st.visited
         THEN dfs_neighbors(graph, nbrs, i + 1, dfs(graph, nbrs[i], st))
         ELSE dfs_neighbors(graph, nbrs, i + 1, st)

RECURSIVE components_loop(_, _, _, _)
components_loop(graph, i, visited, components) ==
    IF i > Len(graph.nodes) THEN components
    ELSE LET node == graph.nodes[i] IN
         IF node \notin visited
         THEN LET st == dfs(graph, node, [visited |-> visited, component |-> {}])
              IN  components_loop(graph, i + 1, st.visited,
                                  Append(components, st.component))
         ELSE components_loop(graph, i + 1, visited, components)

_find_connected_components(graph) ==
    IF Len(graph.nodes) = 0 THEN <<>>
    ELSE components_loop(graph, 1, {}, <<>>)

(***************************************************************************)
(* VLANIsland and VLANAnalysisResult.  fragmentation_ratio is the float    *)
(* (total - main) / total, kept as the reduced fraction num/den: two       *)
(* quotients are the same float exactly when their reduced fractions are   *)
(* equal, and 0.0 is 0/1.                                                  *)
(***************************************************************************)
RECURSIVE Gcd(_, _)
Gcd(a, b) == IF b = 0 THEN a ELSE Gcd(b, a % b)

Divide(n, d) == LET g == Gcd(n, d) IN [num |-> n \div g, den |-> d \div g]
Zero == [num |-> 0, den |-> 1]

VLANIsland(vlan_id, devices, island_id) ==
    [vlan_id |-> vlan_id, devices |-> devices, island_id |-> island_id,
     is_main_island |-> FALSE]

size(island) == Cardinality(island.devices)

island_count(result) == Len(result.islands)

(* Variant: the devices of the islands other than the first are counted.   *)
RECURSIVE devices_behind_first(_, _)
devices_behind_first(islands, n) ==
    IF n <= 1 THEN 0
    ELSE devices_behind_first(islands, n - 1) + Cardinality(islands[n].devices)

isolated_devices_in_other_islands(result) ==
    devices_behind_first(result.islands, Len(result.islands))

(* VLANAnalysisResult.isolated_devices                                     *)
isolated_devices(result) == result.total_devices - result.main_island_size

(* Variant: one island is enough to flag the VLAN.                         *)
several_islands_from_one(islands) == Len(islands) > 0

(* has_islands=len(islands) > 1                                            *)
several_islands(islands) == Len(islands) > 1

(* Variant: an unstable sort that puts an island in front of its ties.     *)
insert_by_size_ties_first(sorted, island) ==
    LET k == Cardinality({j \in 1..Len(sorted) : size(sorted[j]) > size(island)})
    IN  SubSeq(sorted, 1, k) \o <<island>> \o SubSeq(sorted, k + 1, Len(sorted))

(* list.sort(key=size, reverse=True): stable, so each island goes behind   *)
(* the islands already placed whose size is at least its own.              *)
insert_by_size(sorted, island) ==
    LET k == Cardinality({j \in 1..Len(sorted) : size(sorted[j]) >= size(island)})
    IN  SubSeq(sorted, 1, k) \o <<island>> \o SubSeq(sorted, k + 1, Len(sorted))

(* Variant: the islands are left in discovery order.                       *)
sort_by_size_skipped(islands, i, sorted) == islands

RECURSIVE sort_by_size(_, _, _)
sort_by_size(islands, i, sorted) ==
    IF i > Len(islands) THEN sorted
    ELSE sort_by_size(islands, i + 1, insert_by_size(sorted, islands[i]))

(* for i, component in enumerate(components): island_id = i + 1            *)
make_islands(vlan, components) ==
    [i \in 1..Len(components) |-> VLANIsland(vlan.id, components[i], i)]

mark_main(islands) ==
    IF Len(islands) > 0
    THEN [islands EXCEPT ![1].is_main_island = TRUE]
    ELSE islands

(***************************************************************************)
(* VLANIslandAnalyzer.analyze_vlan: None for an unknown id, the zero       *)
(* result for an empty member list, else components -> islands -> metrics. *)
(***************************************************************************)
(* Variant: a VLAN with an empty member list is treated as missing.        *)
vlan_index_get_nonempty(index, vlan_id) ==
    IF vlan_id \in DOMAIN index /\ Len(index[vlan_id].devices) > 0
    THEN Some(index[vlan_id]) ELSE None

vlan_index_get(index, vlan_id) ==
    IF vlan_id \in DOMAIN index THEN Some(index[vlan_id]) ELSE None

analyze_vlan(cache, topo, index, vlan_id) ==
    LET found == vlan_index_get(index, vlan_id) IN
    IF found = None THEN None
    ELSE LET vlan == found[1] IN
    IF Len(vlan.devices) = 0
    THEN Some([vlan_id |-> vlan.id, total_devices |-> 0, islands |-> <<>>,
               has_islands |-> FALSE, main_island_size |-> 0,
               fragmentation_ratio |-> Zero])
    ELSE LET vlan_subgraph == _get_vlan_subgraph(physical_graph(cache, topo), vlan)
             components == _find_connected_components(vlan_subgraph)
             islands == mark_main(sort_by_size(make_islands(vlan, components), 1, <<>>))
             main_island_size == IF Len(islands) > 0 THEN size(islands[1]) ELSE 0
             total_devices == Len(vlan.devices)
             fragmentation_ratio ==
                 IF total_devices > 0
                 THEN Divide(total_devices - main_island_size, total_devices)
                 ELSE Zero
         IN  Some([vlan_id |-> vlan.id, total_devices |-> total_devices,
                   islands |-> islands, has_islands |-> several_islands(islands),
                   main_island_size |-> main_island_size,
                   fragmentation_ratio |-> fragmentation_ratio])

(* Whether analyze_vlan(vlan_id) reads the physical_graph property.        *)
reads_graph(index, vlan_id) ==
    vlan_id \in DOMAIN index /\ Len(index[vlan_id].devices) > 0

cache_after(cache, topo, accessed) ==
    IF accessed THEN Some(physical_graph(cache, topo)) ELSE cache

(***************************************************************************)
(* VLANIslandAnalyzer.analyze_all_vlans: one pass over topology.vlans;     *)
(* acc = [cache, vlan_results, problematic_vlans, total_islands].          *)
(***************************************************************************)
(* Variant: only problematic VLANs are counted.                            *)
add_islands_if_problematic(total_islands, result) ==
    IF result.has_islands THEN total_islands + island_count(result) ELSE total_islands

(* Variant: the main island of each VLAN is left out of the count.         *)
add_islands_beyond_main(total_islands, result) ==
    total_islands + (IF island_count(result) > 0 THEN island_count(result) - 1 ELSE 0)

(* Variant: the newest result is put in front.                             *)
append_result_in_front(vlan_results, result) == <<result>> \o vlan_results

(* vlan_results.append(result)                                             *)
append_result(vlan_results, result) == Append(vlan_results, result)

(* NetworkAnalysisReport.healthy_vlans                                     *)
healthy_vlans(report) ==
    SelectSeq(report.vlan_results, LAMBDA result : ~result.has_islands)

(* total_islands += result.island_count                                    *)
add_islands(total_islands, result) == total_islands + island_count(result)

(***************************************************************************)
(* VLANIslandAnalyzer._generate_recommendations.  A line is modelled by    *)
(* the values it is formatted from; the fixed lines are kept as text,      *)
(* without the pictograph that starts some of them in the source.          *)
(***************************************************************************)
text_line(text) == [kind |-> "text", text |-> text]

(* a < b for two fragmentation ratios.                                     *)
ratio_less(a, b) == a.num * b.den < b.num * a.den

(* Variant: a ratio of exactly one half already counts.                    *)
at_least_half(ratio) == 2 * ratio.num >= ratio.den

(* fragmentation_ratio > 0.5                                               *)
exceeds_half(ratio) == 2 * ratio.num > ratio.den

(* sorted(key=fragmentation_ratio, reverse=True): stable, so each result   *)
(* goes behind the results already placed whose ratio is at least its own. *)
insert_by_ratio(sorted, result) ==
    LET k == Cardinality({j \in 1..Len(sorted) :
                             ~ratio_less(sorted[j].fragmentation_ratio,
                                         result.fragmentation_ratio)})
    IN  SubSeq(sorted, 1, k) \o <<result>> \o SubSeq(sorted, k + 1, Len(sorted))

(* Variant: the results are left in the order of the topology.             *)
sort_by_ratio_skipped(results, i, sorted) == results

RECURSIVE sort_by_ratio(_, _, _)
sort_by_ratio(results, i, sorted) ==
    IF i > Len(results) THEN sorted
    ELSE sort_by_ratio(results, i + 1, insert_by_ratio(sorted, results[i]))

(* max(key=fragmentation_ratio): the first result no other one exceeds.    *)
max_by_ratio(results) ==
    results[CHOOSE i \in 1..Len(results) :
                /\ \A j \in 1..Len(results) :
                       ~ratio_less(results[i].fragmentation_ratio,
                                   results[j].fragmentation_ratio)
                /\ \A j \in 1..(i - 1) :
                       ratio_less(results[j].fragmentation_ratio,
                                  results[i].fragmentation_ratio)]

HealthyLine == text_line("[+] No VLAN islands detected. Network topology appears healthy.")

RecommendedActions ==
    << text_line(""),
       text_line("Recommended actions:"),
       text_line("1. Review physical connectivity between isolated devices"),
       text_line("2. Check VLAN configuration on intermediate switches"),
       text_line("3. Verify trunk port configurations"),
       text_line("4. Consider adding redundant links for critical paths"),
       text_line("5. Use network visualization to identify connection gaps") >>

vlan_line(result) ==
    [kind |-> "vlan", vlan_id |-> result.vlan_id,
     island_count |-> island_count(result),
     isolated_devices |-> isolated_devices(result)]

_generate_recommendations(problematic_vlans) ==
    IF Len(problematic_vlans) = 0 THEN <<HealthyLine>>
    ELSE LET ordered == sort_by_ratio(problematic_vlans, 1, <<>>)
             worst_vlan == max_by_ratio(problematic_vlans)
         IN  <<[kind |-> "detected", count |-> Len(problematic_vlans)]>>
             \o [i \in 1..Len(ordered) |-> vlan_line(ordered[i])]
             \o RecommendedActions
             \o (IF exceeds_half(worst_vlan.fragmentation_ratio)
                 THEN <<text_line(""), [kind |-> "priority", vlan_id |-> worst_vlan.vlan_id,
                             fragmentation_ratio |-> worst_vlan.fragmentation_ratio]>>
                 ELSE <<>>)

RECURSIVE all_vlans_loop(_, _, _, _)
all_vlans_loop(topo, index, i, acc) ==
    IF i > Len(topo.vlans) THEN acc
    ELSE LET vlan == topo.vlans[i]
             result == analyze_vlan(acc.cache, topo, index, vlan.id)
             cache == cache_after(acc.cache, topo, reads_graph(index, vlan.id))
         IN  IF result = None
             THEN all_vlans_loop(topo, index, i + 1, [acc EXCEPT !.cache = cache])
             ELSE all_vlans_loop(topo, index, i + 1,
                    [cache |-> cache,
                     vlan_results |-> append_result(acc.vlan_results, result[1]),
                     problematic_vlans |->
                         IF result[1].has_islands
                         THEN Append(acc.problematic_vlans, result[1])
                         ELSE acc.problematic_vlans,
                     total_islands |-> add_islands(acc.total_islands, result[1])])

(* NetworkTopology.get_statistics: the counts; the per-type and per-role  *)
(* tallies and the average are left out, devices carry no type here.      *)
get_statistics(topo) ==
    [total_devices |-> Len(topo.devices), total_links |-> Len(topo.links),
     total_vlans |-> Len(topo.vlans)]

analyze_all_vlans(cache, topo, index) ==
    LET done == all_vlans_loop(topo, index, 1,
                               [cache |-> cache, vlan_results |-> <<>>,
                                problematic_vlans |-> <<>>, total_islands |-> 0])
    IN  [cache |-> done.cache, vlan_results |-> done.vlan_results,
         problematic_vlans |-> done.problematic_vlans,
         total_islands |-> done.total_islands,
         topology_summary |-> get_statistics(topo),
         recommendations |-> _generate_recommendations(done.problematic_vlans)]

(***************************************************************************)
(* VLANIslandAnalyzer.__init__: the VLAN index of the topology.            *)
(***************************************************************************)
build_vlan_index(topo) ==
    [id \in {topo.vlans[i].id : i \in 1..Len(topo.vlans)} |->
        LET last == CHOOSE i \in 1..Len(topo.vlans) :
                        /\ topo.vlans[i].id = id
                        /\ \A j \in (i + 1)..Len(topo.vlans) : topo.vlans[j].id # id
        IN  topo.vlans[last]]

(***************************************************************************)
(* Topologies of the model.  The device list is DeviceIds.  A link list    *)
(* holds at most MaxLinks links between identifiers of AllIds (self-loops, *)
(* repeated links and links naming the ghost included), listed in          *)
(* non-decreasing order of their endpoints' positions.  A VLAN member list *)
(* is duplicate-free, as VLAN.validate_devices leaves it.                  *)
(***************************************************************************)
IdSeq == DeviceIds \o <<Ghost>>

EndpointPairs == {p \in (1..Len(IdSeq)) \X (1..Len(IdSeq)) : p[1] <= p[2]}

PairLeq(p, q) == p[1] < q[1] \/ (p[1] = q[1] /\ p[2] <= q[2])

LinkLists ==
    LET shapes == UNION {[1..n -> EndpointPairs] : n \in 0..MaxLinks}
        sorted == {f \in shapes : \A i \in 1..(Len(f) - 1) : PairLeq(f[i], f[i + 1])}
    IN  {[i \in 1..Len(f) |-> [source |-> IdSeq[f[i][1]], target |-> IdSeq[f[i][2]]]]
            : f \in sorted}

(* The chain sw1 - sw2 - ... cut after its first n links.                  *)
ChainLinks(n) ==
    [i \in 1..n |-> [source |-> DeviceIds[i], target |-> DeviceIds[i + 1]]]

ChainLists == {ChainLinks(n) : n \in 0..(IF MaxLinks < NumDevices - 1
                                         THEN MaxLinks ELSE NumDevices - 1)}

MemberList(members) == SelectSeq(IdSeq, LAMBDA d : d \in members)

AnyMembers == {MemberList(m) : m \in SUBSET AllIds}

(* The first n devices, with or without the ghost behind them.             *)
PrefixMembers ==
    {SubSeq(DeviceIds, 1, n) \o tail : n \in 0..NumDevices, tail \in {<<>>, <<Ghost>>}}

VlanLists(count, members) ==
    {[k \in 1..count |-> [id |-> VlanIdAt(k), devices |-> m[k]]]
        : m \in [1..count -> members]}

(* Any links with at most one VLAN of any members, or a chain with several *)
(* VLANs of prefix members.                                                *)
Topologies ==
    {[devices |-> DeviceIds, links |-> l, vlans |-> v]
        : l \in LinkLists, v \in VlanLists(0, AnyMembers) \cup VlanLists(1, AnyMembers)}
    \cup
    {[devices |-> DeviceIds, links |-> l, vlans |-> v]
        : l \in ChainLists, v \in UNION {VlanLists(c, PrefixMembers) : c \in 2..MaxVlans}}

(* The ids a call is made with: those of the topology and one it lacks.    *)
VlanIds(topo) == {topo.vlans[i].id : i \in 1..Len(topo.vlans)} \cup {AbsentVlan}

(***************************************************************************)
(* The analyzer as constructed, and its public calls.                      *)
(***************************************************************************)
Init ==
    /\ topology \in Topologies
    /\ _vlan_index = build_vlan_index(topology)
    /\ _physical_graph = None
    /\ ret = [op |-> "none"]

(* Observed at the call: the cache, if built, is the graph of the topology *)
(* as it is now.                                                           *)
cache_is_current(cache, topo) ==
    cache = None \/ cache[1] = _build_physical_graph(topo)

AnalyzeVlan(vlan_id) ==
    /\ ret' = [op |-> "analyze_vlan", vlan_id |-> vlan_id,
               cached |-> _physical_graph # None,
               current |-> cache_is_current(_physical_graph, topology),
               value |-> analyze_vlan(_physical_graph, topology, _vlan_index, vlan_id)]
    /\ _physical_graph' = cache_after(_physical_graph, topology,
                                      reads_graph(_vlan_index, vlan_id))
    /\ UNCHANGED <<topology, _vlan_index>>

AnalyzeAllVlans ==
    LET done == analyze_all_vlans(_physical_graph, topology, _vlan_index) IN
    /\ ret' = [op |-> "analyze_all_vlans",
               cached |-> _physical_graph # None,
               current |-> cache_is_current(_physical_graph, topology),
               value |-> [vlan_results |-> done.vlan_results,
                          problematic_vlans |-> done.problematic_vlans,
                          total_islands |-> done.total_islands,
                          topology_summary |-> done.topology_summary,
                          recommendations |-> done.recommendations]]
    /\ _physical_graph' = done.cache
    /\ UNCHANGED <<topology, _vlan_index>>

Next ==
    \/ \E vlan_id \in VlanIds(topology) : AnalyzeVlan(vlan_id)
    \/ AnalyzeAllVlans

Spec == Init /\ [][Next]_vars

(***************************************************************************)
(* Vocabulary of the properties, read off the topology itself and not off  *)
(* the graph the analyzer builds.                                          *)
(***************************************************************************)
IsVlanResult == ret.op = "analyze_vlan" /\ ret.value # None
IsReport == ret.op = "analyze_all_vlans"

Islands == ret.value[1].islands

LinkEnds == {topology.links[i].source : i \in 1..Len(topology.links)}
            \cup {topology.links[i].target : i \in 1..Len(topology.links)}

(* Identifiers present in the physical graph: devices and link endpoints.  *)
Present == Range(topology.devices) \cup LinkEnds

VlanWithId(vlan_id) ==
    topology.vlans[CHOOSE i \in 1..Len(topology.vlans) : topology.vlans[i].id = vlan_id]

HasVlan(vlan_id) == \E i \in 1..Len(topology.vlans) : topology.vlans[i].id = vlan_id

Members(vlan_id) == Range(VlanWithId(vlan_id).devices)

PresentMembers(vlan_id) == Members(vlan_id) \cap Present

Linked(a, b) ==
    \E i \in 1..Len(topology.links) :
        \/ topology.links[i].source = a /\ topology.links[i].target = b
        \/ topology.links[i].source = b /\ topology.links[i].target = a

(* The identifiers of S joined to R by links that stay inside S.           *)
RECURSIVE JoinedWithin(_, _)
JoinedWithin(S, R) ==
    LET more == R \cup {b \in S : \E a \in R : Linked(a, b)}
    IN  IF more = R THEN R ELSE JoinedWithin(S, more)

SameIsland(a, b) ==
    \E i \in 1..Len(Islands) : a \in Islands[i].devices /\ b \in Islands[i].devices

InIslands == UNION {Islands[i].devices : i \in 1..Len(Islands)}

(***************************************************************************)
(* C1: the islands analyze_vlan returns are pairwise disjoint and their    *)
(* union is exactly the VLAN's member set restricted to the identifiers    *)
(* present in the physical graph.                                          *)
(***************************************************************************)
C1_IslandsPartitionPresentMembers ==
    IsVlanResult =>
        /\ \A i, j \in 1..Len(Islands) :
               i # j => Islands[i].devices \cap Islands[j].devices = {}
        /\ InIslands = PresentMembers(ret.vlan_id)

(* Several islands, a dangling member that is dropped, and a device of the *)
(* graph that is no member.                                                *)
C1_Witness ==
    /\ IsVlanResult
    /\ Len(Islands) >= 2
    /\ Members(ret.vlan_id) \ Present # {}
    /\ Present \ Members(ret.vlan_id) # {}

(***************************************************************************)
(* C2: two present members are in the same island iff a path of links      *)
(* through members only joins them; islands are non-empty, and there are   *)
(* none when no member is present.                                         *)
(***************************************************************************)
C2_IslandsAreComponents ==
    IsVlanResult =>
        LET S == PresentMembers(ret.vlan_id) IN
        /\ \A a, b \in S : SameIsland(a, b) <=> b \in JoinedWithin(S, {a})
        /\ \A i \in 1..Len(Islands) : Islands[i].devices # {}
        /\ S = {} => Len(Islands) = 0

(* Two members linked only through a device outside the VLAN fall into     *)
(* different islands.                                                      *)
C2_Witness ==
    /\ IsVlanResult
    /\ \E a, b \in PresentMembers(ret.vlan_id) :
           /\ a # b /\ ~SameIsland(a, b)
           /\ \E x \in Present \ Members(ret.vlan_id) : Linked(a, x) /\ Linked(x, b)

(***************************************************************************)
(* C3: fragmentation_ratio == 0.0 iff island_count <= 1, for every result  *)
(* of analyze_vlan, dangling members included.                             *)
(***************************************************************************)
C3_ZeroRatioIffAtMostOneIsland ==
    IsVlanResult =>
        (ret.value[1].fragmentation_ratio = Zero <=> island_count(ret.value[1]) <= 1)

(***************************************************************************)
(* C4: analyze_vlan returns None exactly when the VLAN id is not in the    *)
(* topology; a VLAN without members gets the zero result instead.          *)
(***************************************************************************)
C4_NoneIffUnknownVlan ==
    ret.op = "analyze_vlan" =>
        /\ ret.value = None <=> ~HasVlan(ret.vlan_id)
        /\ (HasVlan(ret.vlan_id) /\ Members(ret.vlan_id) = {}) =>
               ret.value = Some([vlan_id |-> ret.vlan_id, total_devices |-> 0,
                                 islands |-> <<>>, has_islands |-> FALSE,
                                 main_island_size |-> 0,
                                 fragmentation_ratio |-> Zero])

(* analyze_vlan was called on a VLAN that exists and has no members.       *)
C4_Witness ==
    /\ ret.op = "analyze_vlan"
    /\ HasVlan(ret.vlan_id)
    /\ Members(ret.vlan_id) = {}
    /\ ret.value # None

(***************************************************************************)
(* C5: with at least one island, sizes are non-increasing along the list,  *)
(* exactly one island is main, it is the first, and main_island_size is    *)
(* the largest island size.                                                *)
(***************************************************************************)
C5_SortedWithOneMainFirst ==
    (IsVlanResult /\ Len(Islands) >= 1) =>
        /\ \A i \in 1..(Len(Islands) - 1) : size(Islands[i]) >= size(Islands[i + 1])
        /\ {i \in 1..Len(Islands) : Islands[i].is_main_island} = {1}
        /\ \A i \in 1..Len(Islands) : ret.value[1].main_island_size >= size(Islands[i])
        /\ \E i \in 1..Len(Islands) : ret.value[1].main_island_size = size(Islands[i])

(* The larger island was discovered after a smaller one and heads the list. *)
C5_Witness ==
    /\ IsVlanResult
    /\ Len(Islands) >= 2
    /\ size(Islands[1]) > size(Islands[2])
    /\ Islands[1].island_id > Islands[2].island_id

(***************************************************************************)
(* C6: the island at position k of the islands list has island_id k.       *)
(***************************************************************************)
C6_IslandIdIsPosition ==
    IsVlanResult => \A k \in 1..Len(Islands) : Islands[k].island_id = k

(***************************************************************************)
(* C7: among islands of equal size the list keeps the order in which the   *)
(* traversal discovered them, and the island marked main is the one of the *)
(* largest size that was discovered first, and only that one.              *)
(*                                                                         *)
(* island_id is the position of the island's component in the list the    *)
(* traversal returned (enumerate in analyze_vlan), so it records the       *)
(* discovery order.                                                        *)
(***************************************************************************)
Discovered(island) == island.island_id

C7_TiesKeepDiscoveryOrder ==
    IsVlanResult =>
        /\ \A i, j \in 1..Len(Islands) :
               (i < j /\ size(Islands[i]) = size(Islands[j]))
                   => Discovered(Islands[i]) < Discovered(Islands[j])
        /\ \A k \in 1..Len(Islands) :
               Islands[k].is_main_island <=>
                   \A j \in 1..Len(Islands) :
                       \/ size(Islands[k]) > size(Islands[j])
                       \/ /\ size(Islands[k]) = size(Islands[j])
                          /\ Discovered(Islands[k]) <= Discovered(Islands[j])

(* Two islands tie for the largest size.                                   *)
C7_Witness ==
    /\ IsVlanResult
    /\ Len(Islands) >= 2
    /\ size(Islands[1]) = size(Islands[2])

(***************************************************************************)
(* C8: a call repeated on the same analyzer returns the value it returned  *)
(* before: the same islands in the same order with the same ids and main   *)
(* flags and the same metrics, whether or not the call built the cache.    *)
(***************************************************************************)
C8_RepeatedCallSameValue ==
    [][/\ (ret.op = "analyze_vlan" /\ ret'.op = "analyze_vlan"
              /\ ret'.vlan_id = ret.vlan_id) => ret'.value = ret.value
       /\ (ret.op = "analyze_all_vlans" /\ ret'.op = "analyze_all_vlans")
              => ret'.value = ret.value]_vars

(* A call that found the cache built returned a fragmented VLAN.           *)
C8_Witness ==
    /\ IsVlanResult
    /\ ret.cached
    /\ Len(Islands) >= 2
    /\ \E i \in 1..Len(Islands) : size(Islands[i]) >= 2

(***************************************************************************)
(* C9: total_islands is the sum of island_count over vlan_results, and 0   *)
(* for a topology without VLANs.                                           *)
(***************************************************************************)
RECURSIVE SumIslandCounts(_, _)
SumIslandCounts(results, n) ==
    IF n = 0 THEN 0 ELSE SumIslandCounts(results, n - 1) + Len(results[n].islands)

C9_TotalIsSumOfIslandCounts ==
    IsReport =>
        /\ ret.value.total_islands
               = SumIslandCounts(ret.value.vlan_results, Len(ret.value.vlan_results))
        /\ Len(topology.vlans) = 0 => ret.value.total_islands = 0

(* A report over a healthy VLAN and a fragmented one.                      *)
C9_Witness ==
    /\ IsReport
    /\ \E i, j \in 1..Len(ret.value.vlan_results) :
           /\ Len(ret.value.vlan_results[i].islands) = 1
           /\ Len(ret.value.vlan_results[j].islands) >= 2

(***************************************************************************)
(* C10: every VLAN of vlan_results contributes at least one island, so     *)
(* total_islands is at least the number of VLANs in vlan_results.          *)
(***************************************************************************)
C10_EveryVlanContributesAnIsland ==
    IsReport =>
        /\ \A i \in 1..Len(ret.value.vlan_results) :
               Len(ret.value.vlan_results[i].islands) >= 1
        /\ ret.value.total_islands >= Len(ret.value.vlan_results)

(* C10 as amended: every VLAN with a member present in the physical graph  *)
(* contributes at least one island and a VLAN without one contributes      *)
(* none, so total_islands is at least the number of VLANs that have a      *)
(* present member.                                                         *)
C10_VlansWithPresentMembersContribute ==
    IsReport =>
        /\ \A i \in 1..Len(ret.value.vlan_results) :
               LET result == ret.value.vlan_results[i] IN
               IF PresentMembers(result.vlan_id) # {}
               THEN Len(result.islands) >= 1
               ELSE Len(result.islands) = 0
        /\ ret.value.total_islands
               >= Cardinality({i \in 1..Len(topology.vlans) :
                                  PresentMembers(topology.vlans[i].id) # {}})

(* A report over a VLAN without members and a healthy VLAN.                *)
C10_Witness ==
    /\ IsReport
    /\ \E i, j \in 1..Len(ret.value.vlan_results) :
           /\ ret.value.vlan_results[i].total_devices = 0
           /\ Len(ret.value.vlan_results[j].islands) = 1

(***************************************************************************)
(* C11: analyze_all_vlans returns one result for every VLAN of the         *)
(* topology, and the i-th result carries the id of the i-th VLAN of        *)
(* topology.vlans.                                                         *)
(***************************************************************************)
C11_OneResultPerVlanInOrder ==
    IsReport =>
        /\ Len(ret.value.vlan_results) = Len(topology.vlans)
        /\ \A i \in 1..Len(ret.value.vlan_results) :
               ret.value.vlan_results[i].vlan_id = topology.vlans[i].id

(* A report over several VLANs.                                            *)
C11_Witness ==
    /\ IsReport
    /\ Len(ret.value.vlan_results) >= 2
    /\ ret.value.vlan_results[1].vlan_id # ret.value.vlan_results[2].vlan_id

(***************************************************************************)
(* C12: has_islands is true iff there is more than one island;             *)
(* problematic_vlans is the sub-sequence of vlan_results with more than    *)
(* one island, healthy_vlans is the sub-sequence of the rest, and a VLAN   *)
(* with at most one island is in healthy_vlans.                            *)
(***************************************************************************)
C12_ProblematicAndHealthyPartition ==
    IsReport =>
        LET results == ret.value.vlan_results IN
        /\ \A i \in 1..Len(results) :
               results[i].has_islands <=> Len(results[i].islands) > 1
        /\ ret.value.problematic_vlans
               = SelectSeq(results, LAMBDA r : Len(r.islands) > 1)
        /\ healthy_vlans(ret.value)
               = SelectSeq(results, LAMBDA r : Len(r.islands) <= 1)
        /\ Len(ret.value.problematic_vlans) + Len(healthy_vlans(ret.value))
               = Len(results)
        /\ \A i \in 1..Len(results) :
               (results[i].total_devices = 0 \/ Len(results[i].islands) = 1)
                   => Contains(healthy_vlans(ret.value), results[i])

(* A report with a fragmented VLAN, a VLAN of one island and nothing else. *)
C12_Witness ==
    /\ IsReport
    /\ Len(ret.value.problematic_vlans) >= 1
    /\ \E i \in 1..Len(ret.value.vlan_results) :
           Len(ret.value.vlan_results[i].islands) = 1

(***************************************************************************)
(* C20: isolated_devices is the number of devices configured for the VLAN  *)
(* minus the size of its largest island; for a VLAN without members        *)
(* total_devices, main_island_size and isolated_devices are all 0.         *)
(***************************************************************************)
LargestGroup(S) ==
    IF S = {} THEN 0
    ELSE LET sizes == {Cardinality(JoinedWithin(S, {a})) : a \in S}
         IN  CHOOSE n \in sizes : \A k \in sizes : k <= n

C20_IsolatedIsTotalMinusMain ==
    IsVlanResult =>
        LET result == ret.value[1] IN
        /\ result.total_devices = Cardinality(Members(ret.vlan_id))
        /\ result.main_island_size = LargestGroup(PresentMembers(ret.vlan_id))
        /\ isolated_devices(result)
               = Cardinality(Members(ret.vlan_id))
                     - LargestGroup(PresentMembers(ret.vlan_id))
        /\ Members(ret.vlan_id) = {} =>
               /\ result.total_devices = 0
               /\ result.main_island_size = 0
               /\ isolated_devices(result) = 0

(* Two islands and a member that is in none of them.                       *)
C20_Witness ==
    /\ IsVlanResult
    /\ Len(Islands) >= 2
    /\ Members(ret.vlan_id) \ InIslands # {}
    /\ isolated_devices(ret.value[1]) >= 2

(***************************************************************************)
(* Reading the physical_graph property directly, on topologies without     *)
(* VLANs whose link list is any list of at most MaxLinks links between     *)
(* devices of the topology, in either orientation.                         *)
(***************************************************************************)
number_of_nodes(graph) == Len(graph.nodes)

(* networkx counts every adjacency twice except a self-loop's.             *)
RECURSIVE adjacency_total(_, _)
adjacency_total(graph, n) ==
    IF n = 0 THEN 0
    ELSE adjacency_total(graph, n - 1) + Len(graph.adj[n])
             + (IF Contains(graph.adj[n], graph.nodes[n]) THEN 1 ELSE 0)

number_of_edges(graph) == adjacency_total(graph, Len(graph.nodes)) \div 2

has_edge(graph, u, v) ==
    Contains(graph.nodes, u) /\ Contains(neighbors(graph, u), v)

DeviceLinks ==
    {[source |-> DeviceIds[p[1]], target |-> DeviceIds[p[2]]]
        : p \in (1..NumDevices) \X (1..NumDevices)}

DeviceLinkLists == UNION {[1..n -> DeviceLinks] : n \in 0..MaxLinks}

GraphTopologies ==
    {[devices |-> DeviceIds, links |-> l, vlans |-> <<>>] : l \in DeviceLinkLists}

InitGraph ==
    /\ topology \in GraphTopologies
    /\ _vlan_index = build_vlan_index(topology)
    /\ _physical_graph = None
    /\ ret = [op |-> "none"]

ReadPhysicalGraph ==
    /\ ret' = [op |-> "physical_graph",
               value |-> physical_graph(_physical_graph, topology)]
    /\ _physical_graph' = cache_after(_physical_graph, topology, TRUE)
    /\ UNCHANGED <<topology, _vlan_index>>

NextGraph == ReadPhysicalGraph

SpecGraph == InitGraph /\ [][NextGraph]_vars

(***************************************************************************)
(* C18: the physical graph has the device identifiers as its nodes and one *)
(* undirected edge per link: as many nodes as devices and as many edges as *)
(* links, for every link list, repeated links included.                    *)
(***************************************************************************)
C18_OneEdgePerLink ==
    ret.op = "physical_graph" =>
        /\ Range(ret.value.nodes) = Range(topology.devices)
        /\ number_of_nodes(ret.value) = Len(topology.devices)
        /\ \A i \in 1..Len(topology.links) :
               has_edge(ret.value, topology.links[i].source, topology.links[i].target)
        /\ \A u, v \in Range(ret.value.nodes) :
               has_edge(ret.value, u, v) => Linked(u, v)
        /\ number_of_edges(ret.value) = Len(topology.links)

(***************************************************************************)
(* VLANIslandAnalyzer._find_bridge_candidates.  The code iterates Python   *)
(* sets; the order of the entries is taken here from the physical graph    *)
(* (node order, then adjacency order).                                     *)
(***************************************************************************)
(* Variant: every outside neighbour is accepted as a bridge.               *)
bridge_reaches_main_always(graph, bridge_device, main_island_devices) == TRUE

(* bridge_neighbors & main_island_devices                                  *)
bridge_reaches_main(graph, bridge_device, main_island_devices) ==
    Range(neighbors(graph, bridge_device)) \cap main_island_devices # {}

bridge_type(topo, bridge_device) ==
    IF Contains(topo.devices, bridge_device) THEN "switch" ELSE "unknown"

candidates_of_device(graph, topo, device_id, island_devices, main_island_devices) ==
    LET potential_bridges ==
            SelectSeq(neighbors(graph, device_id), LAMBDA b : b \notin island_devices)
        bridges ==
            SelectSeq(potential_bridges,
                      LAMBDA b : bridge_reaches_main(graph, b, main_island_devices))
    IN  [i \in 1..Len(bridges) |->
            [isolated_device |-> device_id,
             bridge_device   |-> bridges[i],
             bridge_type     |-> bridge_type(topo, bridges[i])]]

RECURSIVE candidates_loop(_, _, _, _, _, _)
candidates_loop(graph, topo, order, i, island_devices, main_island_devices) ==
    IF i > Len(order) THEN <<>>
    ELSE candidates_of_device(graph, topo, order[i], island_devices, main_island_devices)
         \o candidates_loop(graph, topo, order, i + 1, island_devices, main_island_devices)

_find_bridge_candidates(graph, topo, island_devices, main_island_devices) ==
    candidates_loop(graph, topo,
                    SelectSeq(graph.nodes, LAMBDA n : n \in island_devices), 1,
                    island_devices, main_island_devices)

(***************************************************************************)
(* VLANIslandAnalyzer.get_island_connectivity_suggestions                  *)
(***************************************************************************)
NoIslandsMessage == [message |-> "No islands detected for this VLAN"]

RECURSIVE opportunities_loop(_, _, _, _, _)
opportunities_loop(graph, topo, islands, main_island, i) ==
    IF i > Len(islands) THEN <<>>
    ELSE LET island == islands[i]
             rest == opportunities_loop(graph, topo, islands, main_island, i + 1)
         IN  IF island = main_island THEN rest
             ELSE LET bridge_candidates ==
                          _find_bridge_candidates(graph, topo, island.devices,
                                                  main_island.devices)
                  IN  IF Len(bridge_candidates) > 0
                      THEN <<[isolated_island |-> [id |-> island.island_id,
                                                   devices |-> island.devices,
                                                   size |-> size(island)],
                              bridge_candidates |-> bridge_candidates]>> \o rest
                      ELSE rest

get_island_connectivity_suggestions(cache, topo, index, vlan_id) ==
    LET result == analyze_vlan(cache, topo, index, vlan_id) IN
    IF result = None THEN NoIslandsMessage
    ELSE IF ~result[1].has_islands THEN NoIslandsMessage
    ELSE LET islands == result[1].islands
             mains == SelectSeq(islands, LAMBDA island : island.is_main_island)
         IN  [vlan_id |-> vlan_id,
              island_count |-> island_count(result[1]),
              connection_opportunities |->
                  IF Len(mains) > 0
                  THEN opportunities_loop(physical_graph(cache, topo), topo,
                                          islands, mains[1], 1)
                  ELSE <<>>]

(***************************************************************************)
(* The topology of the tests (create_simple_topology) and variations of    *)
(* it: five switches, links sw1-sw2, sw2-sw3, sw4-sw5, with or without a   *)
(* fourth link sw3-sw4, and one VLAN of any members.                       *)
(***************************************************************************)
SimpleDevices == <<"sw1", "sw2", "sw3", "sw4", "sw5">>

SimpleLinks ==
    << [source |-> "sw1", target |-> "sw2"],
       [source |-> "sw2", target |-> "sw3"],
       [source |-> "sw4", target |-> "sw5"] >>

SimpleTopology ==
    [devices |-> SimpleDevices,
     links   |-> SimpleLinks,
     vlans   |-> << [id |-> 100, devices |-> SimpleDevices],
                    [id |-> 200, devices |-> <<"sw1", "sw2", "sw3">>],
                    [id |-> 300, devices |-> <<>>] >>]

SimpleVariations ==
    {[devices |-> SimpleDevices, links |-> l,
      vlans |-> << [id |-> 100, devices |-> SelectSeq(SimpleDevices, LAMBDA d : d \in m)] >>]
        : l \in {SimpleLinks, Append(SimpleLinks, [source |-> "sw3", target |-> "sw4"])},
          m \in SUBSET Range(SimpleDevices)}

SuggestionTopologies ==
    {[devices |-> DeviceIds, links |-> l, vlans |-> v]
        : l \in LinkLists, v \in VlanLists(1, AnyMembers)}
    \cup SimpleVariations \cup {SimpleTopology}

InitSuggestions ==
    /\ topology \in SuggestionTopologies
    /\ _vlan_index = build_vlan_index(topology)
    /\ _physical_graph = None
    /\ ret = [op |-> "none"]

GetVlanSubgraph(i) ==
    /\ ret' = [op |-> "_get_vlan_subgraph", vlan_id |-> topology.vlans[i].id,
               value |-> _get_vlan_subgraph(physical_graph(_physical_graph, topology),
                                            topology.vlans[i])]
    /\ _physical_graph' = cache_after(_physical_graph, topology, TRUE)
    /\ UNCHANGED <<topology, _vlan_index>>

GetIslandConnectivitySuggestions(vlan_id) ==
    /\ ret' = [op |-> "get_island_connectivity_suggestions", vlan_id |-> vlan_id,
               value |-> get_island_connectivity_suggestions(
                             _physical_graph, topology, _vlan_index, vlan_id)]
    /\ _physical_graph' = cache_after(_physical_graph, topology,
                                      reads_graph(_vlan_index, vlan_id))
    /\ UNCHANGED <<topology, _vlan_index>>

NextSuggestions ==
    \/ \E i \in 1..Len(topology.vlans) : GetVlanSubgraph(i)
    \/ \E vlan_id \in VlanIds(topology) : GetIslandConnectivitySuggestions(vlan_id)

SpecSuggestions == InitSuggestions /\ [][NextSuggestions]_vars

IsSubgraph == ret.op = "_get_vlan_subgraph"
IsSuggestions ==
    ret.op = "get_island_connectivity_suggestions" /\ "vlan_id" \in DOMAIN ret.value

(* The islands analyze_vlan reports for the VLAN of the last call.         *)
Analysis == analyze_vlan(None, topology, _vlan_index, ret.vlan_id)

MainIsland ==
    LET islands == Analysis[1].islands
    IN  islands[CHOOSE i \in 1..Len(islands) : islands[i].is_main_island]

(* (d, b): d in the island, b a linked device outside it, b linked to a    *)
(* device of the main island.                                              *)
BridgePairs(island, main) ==
    {p \in island \X (Present \ island) :
        Linked(p[1], p[2]) /\ \E m \in main : Linked(p[2], m)}

ReportedPairs(opportunity) ==
    {<<opportunity.bridge_candidates[k].isolated_device,
       opportunity.bridge_candidates[k].bridge_device>>
        : k \in 1..Len(opportunity.bridge_candidates)}

(***************************************************************************)
(* C16: for every non-main island the reported bridge candidates are       *)
(* exactly the pairs (d, b) with d in the island, b a physical neighbour   *)
(* of d outside the island and b a physical neighbour of some device of    *)
(* the main island: one entry per pair, an island without such a pair is   *)
(* not listed, and nothing is listed for anything but a non-main island.   *)
(***************************************************************************)
C16_BridgeCandidatesAreOneHopBridges ==
    IsSuggestions =>
        LET islands == Analysis[1].islands
            opps == ret.value.connection_opportunities
            listed(island) ==
                {k \in 1..Len(opps) : opps[k].isolated_island.devices = island.devices}
        IN  /\ \A i \in 1..Len(islands) :
                   LET expected == BridgePairs(islands[i].devices, MainIsland.devices) IN
                   IF islands[i].is_main_island \/ expected = {}
                   THEN listed(islands[i]) = {}
                   ELSE /\ Cardinality(listed(islands[i])) = 1
                        /\ \A k \in listed(islands[i]) :
                               /\ ReportedPairs(opps[k]) = expected
                               /\ Len(opps[k].bridge_candidates) = Cardinality(expected)
            /\ \A k \in 1..Len(opps) :
                   \E i \in 1..Len(islands) : k \in listed(islands[i])

(* A candidate is reported, while another outside neighbour of a non-main  *)
(* island is left out although it leads to the main island through further *)
(* devices.                                                                *)
C16_Witness ==
    /\ IsSuggestions
    /\ \E k \in 1..Len(ret.value.connection_opportunities) :
           Len(ret.value.connection_opportunities[k].bridge_candidates) > 0
    /\ \E i \in 1..Len(Analysis[1].islands) :
           LET island == Analysis[1].islands[i].devices IN
           /\ ~Analysis[1].islands[i].is_main_island
           /\ \E d \in island, b \in Present \ island :
                  /\ Linked(d, b)
                  /\ <<d, b>> \notin BridgePairs(island, MainIsland.devices)
                  /\ JoinedWithin(Present \ island, {b}) \cap MainIsland.devices # {}

(***************************************************************************)
(* C17: when the analysis of the VLAN has more than one island, the        *)
(* suggestions carry the VLAN id, the island count of the analysis and a   *)
(* non-empty list of connection opportunities.                             *)
(***************************************************************************)
C17_SeveralIslandsGetOpportunities ==
    (/\ ret.op = "get_island_connectivity_suggestions"
     /\ Analysis # None
     /\ Len(Analysis[1].islands) > 1)
        => /\ IsSuggestions
           /\ ret.value.vlan_id = ret.vlan_id
           /\ ret.value.island_count = Len(Analysis[1].islands)
           /\ Len(ret.value.connection_opportunities) > 0

(***************************************************************************)
(* C19: the projection's nodes are exactly the VLAN members present in the *)
(* physical graph, each once, and its edges exactly the links between two  *)
(* of them; absent members and non-members appear nowhere.                 *)
(***************************************************************************)
C19_SubgraphIsInducedOnPresentMembers ==
    IsSubgraph =>
        LET keep == PresentMembers(ret.vlan_id) IN
        /\ Range(ret.value.nodes) = keep
        /\ Len(ret.value.nodes) = Cardinality(keep)
        /\ \A u \in keep :
               Range(neighbors(ret.value, u)) = {v \in keep : Linked(u, v)}

(* A member is absent from the physical graph, two members are linked, and *)
(* a member is linked to a non-member.                                     *)
C19_Witness ==
    /\ IsSubgraph
    /\ Members(ret.vlan_id) \ Present # {}
    /\ \E u, v \in PresentMembers(ret.vlan_id) :
           u # v /\ has_edge(ret.value, u, v)
    /\ \E u \in PresentMembers(ret.vlan_id), v \in Present \ Members(ret.vlan_id) :
           Linked(u, v)

(***************************************************************************)
(* VLANIslandAnalyzer.find_connection_paths.  A call either returns a list *)
(* of paths or ends in an exception that leaves the method.                *)
(***************************************************************************)
PathCutoff == 10

Returned(paths) == [paths |-> paths]
Raised(error) == [raised |-> error]

(* Variant: the search descends whatever the length of the path so far.    *)
below_cutoff_always(path, cutoff) == TRUE

(* len(current_path) - 1 < cutoff                                          *)
below_cutoff(path, cutoff) == Len(path) < cutoff

(* networkx.all_simple_paths for one target that is a node of the graph    *)
(* and differs from the source: depth-first over the adjacency lists,      *)
(* never re-entering a node of the current path.                           *)
RECURSIVE simple_paths_edges(_, _, _, _, _, _)
simple_paths_edges(graph, path, nbrs, i, target, cutoff) ==
    IF i > Len(nbrs) THEN <<>>
    ELSE LET next_node == nbrs[i]
             here == IF Contains(path, next_node) THEN <<>>
                     ELSE IF next_node = target THEN <<Append(path, next_node)>>
                     ELSE IF below_cutoff(path, cutoff)
                          THEN simple_paths_edges(graph, Append(path, next_node),
                                                  neighbors(graph, next_node), 1,
                                                  target, cutoff)
                          ELSE <<>>
         IN  here \o simple_paths_edges(graph, path, nbrs, i + 1, target, cutoff)

(* source not in G raises NodeNotFound.  A target that is not in G is      *)
(* taken as a collection of nodes, the characters of the identifier: none  *)
(* of them is a node for the identifiers used here, so nothing is found.   *)
(* For source = target the releases of networkx differ: the older ones     *)
(* yield nothing, the newer ones the path [source]; trivial_path says      *)
(* which release runs.                                                     *)
all_simple_paths(graph, source, target, cutoff, trivial_path) ==
    IF ~Contains(graph.nodes, source) THEN Raised("NodeNotFound")
    ELSE IF ~Contains(graph.nodes, target) THEN Returned(<<>>)
    ELSE IF source = target
         THEN Returned(IF trivial_path THEN << <<source>> >> ELSE <<>>)
    ELSE Returned(simple_paths_edges(graph, <<source>>, neighbors(graph, source), 1,
                                     target, cutoff))

(* Only NetworkXNoPath is caught, which all_simple_paths never raises;     *)
(* NodeNotFound is not a NetworkXNoPath and leaves the method.             *)
find_connection_paths(cache, topo, index, source_device, target_device, vlan_id, trivial_path) ==
    LET found == vlan_index_get(index, vlan_id) IN
    IF found = None THEN Returned(<<>>)
    ELSE LET vlan == found[1] IN
    IF ~Contains(vlan.devices, source_device) \/ ~Contains(vlan.devices, target_device)
    THEN Returned(<<>>)
    ELSE LET vlan_subgraph == _get_vlan_subgraph(physical_graph(cache, topo), vlan)
         IN  all_simple_paths(vlan_subgraph, source_device, target_device,
                              PathCutoff, trivial_path)

(* Whether find_connection_paths reads the physical_graph property.        *)
paths_read_graph(index, source_device, target_device, vlan_id) ==
    /\ vlan_id \in DOMAIN index
    /\ Contains(index[vlan_id].devices, source_device)
    /\ Contains(index[vlan_id].devices, target_device)

(***************************************************************************)
(* Topologies for the path finder: the devices of DeviceIds with at most   *)
(* MaxLinks distinct links between two of them and one VLAN of prefix      *)
(* members; a chain and a ring of PathCutoff + 2 devices, whose VLAN holds *)
(* all of them or all but one; and the topology of the tests.              *)
(***************************************************************************)
DevicePairs == {p \in (1..NumDevices) \X (1..NumDevices) : p[1] < p[2]}

PathLinkLists ==
    LET shapes == UNION {[1..n -> DevicePairs] : n \in 0..MaxLinks}
        rising == {f \in shapes :
                      \A i \in 1..(Len(f) - 1) : PairLeq(f[i], f[i + 1]) /\ f[i] # f[i + 1]}
    IN  {[i \in 1..Len(f) |-> [source |-> DeviceIds[f[i][1]], target |-> DeviceIds[f[i][2]]]]
            : f \in rising}

LongIds == [i \in 1..(PathCutoff + 2) |-> "n" \o ToString(i)]

LongChain ==
    [i \in 1..(PathCutoff + 1) |-> [source |-> LongIds[i], target |-> LongIds[i + 1]]]

LongRing == Append(LongChain, [source |-> LongIds[PathCutoff + 2], target |-> LongIds[1]])

LongTopologies ==
    {[devices |-> LongIds, links |-> l, vlans |-> << [id |-> VlanIdAt(1), devices |-> m] >>]
        : l \in {LongChain, LongRing},
          m \in {LongIds, SelectSeq(LongIds, LAMBDA d : d # LongIds[2])}}

PathTopologies ==
    {[devices |-> DeviceIds, links |-> l, vlans |-> v]
        : l \in PathLinkLists, v \in VlanLists(1, PrefixMembers)}
    \cup LongTopologies \cup {SimpleTopology}

(* The identifiers a call is made with: the first NumDevices devices, the  *)
(* last two and one stranger.                                              *)
CallIds(topo) ==
    {topo.devices[i] : i \in {j \in 1..Len(topo.devices) :
                                 j <= NumDevices \/ j > Len(topo.devices) - 2}}
    \cup {Ghost}

InitPaths ==
    /\ topology \in PathTopologies
    /\ _vlan_index = build_vlan_index(topology)
    /\ _physical_graph = None
    /\ ret = [op |-> "none"]

FindConnectionPaths(source_device, target_device, vlan_id, trivial_path) ==
    /\ ret' = [op |-> "find_connection_paths", source |-> source_device,
               target |-> target_device, vlan_id |-> vlan_id,
               value |-> find_connection_paths(_physical_graph, topology, _vlan_index,
                                               source_device, target_device, vlan_id,
                                               trivial_path)]
    /\ _physical_graph' =
           cache_after(_physical_graph, topology,
                       paths_read_graph(_vlan_index, source_device, target_device, vlan_id))
    /\ UNCHANGED <<topology, _vlan_index>>

NextPaths ==
    \E source_device \in CallIds(topology), target_device \in CallIds(topology),
       vlan_id \in VlanIds(topology) :
        \E trivial_path \in IF source_device = target_device THEN BOOLEAN ELSE {FALSE} :
            FindConnectionPaths(source_device, target_device, vlan_id, trivial_path)

SpecPaths == InitPaths /\ [][NextPaths]_vars

IsPaths == ret.op = "find_connection_paths"

Hops(path) == Len(path) - 1

(* The simple paths of at most k further links that extend a path of P and *)
(* stay inside S, read off topology.links.                                 *)
Extensions(S, P) ==
    {Append(x[1], x[2]) :
        x \in {y \in P \X S : y[2] \notin Range(y[1]) /\ Linked(y[1][Len(y[1])], y[2])}}

RECURSIVE SimplePathsWithin(_, _, _)
SimplePathsWithin(S, P, k) ==
    IF k = 0 \/ P = {} THEN P
    ELSE P \cup SimplePathsWithin(S, Extensions(S, P), k - 1)

ExpectedPaths(S, a, b, k) ==
    IF a \in S THEN {p \in SimplePathsWithin(S, {<<a>>}, k) : p[Len(p)] = b} ELSE {}

(* The identifiers of S within k links of R, staying inside S.             *)
RECURSIVE ReachWithinHops(_, _, _)
ReachWithinHops(S, R, k) ==
    IF k = 0 THEN R
    ELSE ReachWithinHops(S, R \cup {b \in S : \E a \in R : Linked(a, b)}, k - 1)

IslandOf(a) ==
    {i \in 1..Len(Analysis[1].islands) : a \in Analysis[1].islands[i].devices}

(* A call for two distinct members that analyze_vlan places in islands.    *)
IsPathsBetweenIslandMembers ==
    /\ IsPaths
    /\ Analysis # None
    /\ ret.source # ret.target
    /\ IslandOf(ret.source) # {}
    /\ IslandOf(ret.target) # {}

(***************************************************************************)
(* C13: find_connection_paths returns the empty list when the VLAN does    *)
(* not exist or one of the two devices is not a member of it; otherwise it *)
(* returns exactly the simple paths of at most PathCutoff hops from source *)
(* to target through VLAN members joined by links, each once.  (For source *)
(* = target both the empty list and the one-node path are accepted.)       *)
(***************************************************************************)
C13_EmptyOrExactlyTheShortSimplePaths ==
    IsPaths =>
        /\ "paths" \in DOMAIN ret.value
        /\ IF ~HasVlan(ret.vlan_id) THEN ret.value.paths = <<>>
           ELSE IF ret.source \notin Members(ret.vlan_id)
                   \/ ret.target \notin Members(ret.vlan_id)
                THEN ret.value.paths = <<>>
           ELSE IF ret.source = ret.target
                THEN ret.value.paths \in {<<>>, << <<ret.source>> >>}
           ELSE /\ Range(ret.value.paths) =
                       ExpectedPaths(PresentMembers(ret.vlan_id), ret.source, ret.target,
                                     PathCutoff)
                /\ Len(ret.value.paths) = Cardinality(Range(ret.value.paths))

(***************************************************************************)
(* C14, as stated: two distinct members in different islands get no path,  *)
(* two in the same island get at least one path within the hop cutoff.     *)
(***************************************************************************)
C14_SameIslandIffSomePath ==
    IsPathsBetweenIslandMembers =>
        IF IslandOf(ret.source) # IslandOf(ret.target)
        THEN ret.value.paths = <<>>
        ELSE /\ Len(ret.value.paths) > 0
             /\ \A i \in 1..Len(ret.value.paths) : Hops(ret.value.paths[i]) <= PathCutoff

(***************************************************************************)
(* C14, amended: two distinct members in different islands get no path;    *)
(* two in the same island get at least one path, all within the cutoff,    *)
(* when some path of at most PathCutoff hops joins them inside the VLAN,   *)
(* and no path when every path joining them is longer.                     *)
(***************************************************************************)
C14_SameIslandWithinCutoffIffSomePath ==
    IsPathsBetweenIslandMembers =>
        IF IslandOf(ret.source) # IslandOf(ret.target)
        THEN ret.value.paths = <<>>
        ELSE IF ret.target \in ReachWithinHops(PresentMembers(ret.vlan_id),
                                               {ret.source}, PathCutoff)
        THEN /\ Len(ret.value.paths) > 0
             /\ \A i \in 1..Len(ret.value.paths) :
                    /\ Hops(ret.value.paths[i]) <= PathCutoff
                    /\ ret.value.paths[i][1] = ret.source
                    /\ ret.value.paths[i][Len(ret.value.paths[i])] = ret.target
        ELSE ret.value.paths = <<>>

(* Two members of one island that only paths longer than the cutoff join.  *)
C14_Witness ==
    /\ IsPathsBetweenIslandMembers
    /\ IslandOf(ret.source) = IslandOf(ret.target)
    /\ ret.target \notin ReachWithinHops(PresentMembers(ret.vlan_id),
                                         {ret.source}, PathCutoff)
    /\ ret.value.paths = <<>>

(***************************************************************************)
(* C15: with a member absent from the physical graph in the VLAN's list,   *)
(* find_connection_paths returns a path list and never raises, also when   *)
(* the absent member is the source or the target.                          *)
(***************************************************************************)
C15_DanglingMembersNeverRaise ==
    (IsPaths /\ HasVlan(ret.vlan_id) /\ Members(ret.vlan_id) \ Present # {})
        => "paths" \in DOMAIN ret.value

BridgeDevices ==
    UNION {{p[2] : p \in ReportedPairs(ret.value.connection_opportunities[k])}
              : k \in 1..Len(ret.value.connection_opportunities)}

(***************************************************************************)
(* C30: a bridge device proposed for a VLAN is never a member of that VLAN *)
(* and never a device of the main island or of any other island of it.     *)
(***************************************************************************)
C30_BridgesAreNotMembers ==
    IsSuggestions =>
        \A b \in BridgeDevices :
            /\ b \notin Members(ret.vlan_id)
            /\ \A i \in 1..Len(Analysis[1].islands) : b \notin Analysis[1].islands[i].devices

(* A bridge is proposed in a VLAN that also has two members linked to each *)
(* other.                                                                  *)
C30_Witness ==
    /\ IsSuggestions
    /\ BridgeDevices # {}
    /\ \E u, v \in PresentMembers(ret.vlan_id) : u # v /\ Linked(u, v)

(***************************************************************************)
(* _find_connected_components as it runs on the interpreter's call stack.  *)
(* dfs is a recursive Python function: every nested call takes a frame,    *)
(* and a call made when no frame is left raises RecursionError, which      *)
(* nothing in the analyzer catches.  frames is the number of nested dfs    *)
(* calls the stack still has room for when the detection starts; entered   *)
(* lists the nodes in the order dfs is called on them.                     *)
(***************************************************************************)
RECURSIVE dfs_on_stack(_, _, _, _)
RECURSIVE dfs_on_stack_neighbors(_, _, _, _, _)
dfs_on_stack(graph, node, st, frames) ==
    IF frames = 0 THEN [st EXCEPT !.overflow = TRUE]
    ELSE dfs_on_stack_neighbors(graph, neighbors(graph, node), 1,
                                [visited   |-> st.visited \cup {node},
                                 component |-> st.component \cup {node},
                                 entered   |-> Append(st.entered, node),
                                 overflow  |-> FALSE],
                                frames)

dfs_on_stack_neighbors(graph, nbrs, i, st, frames) ==
    IF st.overflow \/ i > Len(nbrs) THEN st
    ELSE IF nbrs[i] \notin st.visited
         THEN dfs_on_stack_neighbors(graph, nbrs, i + 1,
                                     dfs_on_stack(graph, nbrs[i], st, frames - 1), frames)
         ELSE dfs_on_stack_neighbors(graph, nbrs, i + 1, st, frames)

RECURSIVE components_on_stack(_, _, _, _, _, _)
components_on_stack(graph, i, visited, entered, components, frames) ==
    IF i > Len(graph.nodes) THEN [components |-> components, entered |-> entered]
    ELSE LET node == graph.nodes[i] IN
         IF node \notin visited
         THEN LET st == dfs_on_stack(graph, node,
                                     [visited |-> visited, component |-> {},
                                      entered |-> entered, overflow |-> FALSE],
                                     frames)
              IN  IF st.overflow THEN Raised("RecursionError")
                  ELSE components_on_stack(graph, i + 1, st.visited, st.entered,
                                           Append(components, st.component), frames)
         ELSE components_on_stack(graph, i + 1, visited, entered, components, frames)

find_components_on_stack(graph, frames) ==
    IF Len(graph.nodes) = 0 THEN [components |-> <<>>, entered |-> <<>>]
    ELSE components_on_stack(graph, 1, {}, <<>>, <<>>, frames)

(* Topologies for the detection: any links with one VLAN of any members,   *)
(* and the chain and the ring of PathCutoff + 2 devices.                   *)
DetectTopologies ==
    {[devices |-> DeviceIds, links |-> l, vlans |-> v]
        : l \in LinkLists, v \in VlanLists(1, AnyMembers)}
    \cup LongTopologies

(* Room left on the stack: from one frame to one more than any descent     *)
(* through the topology's devices can take.                                *)
StackFrames(topo) == 1..(Len(topo.devices) + 1)

InitDetect ==
    /\ topology \in DetectTopologies
    /\ _vlan_index = build_vlan_index(topology)
    /\ _physical_graph = None
    /\ ret = [op |-> "none"]

FindConnectedComponents(i, frames) ==
    /\ ret' = [op |-> "_find_connected_components", vlan_id |-> topology.vlans[i].id,
               frames |-> frames,
               value |-> find_components_on_stack(
                             _get_vlan_subgraph(physical_graph(_physical_graph, topology),
                                                topology.vlans[i]),
                             frames)]
    /\ _physical_graph' = cache_after(_physical_graph, topology, TRUE)
    /\ UNCHANGED <<topology, _vlan_index>>

NextDetect ==
    \E i \in 1..Len(topology.vlans), frames \in StackFrames(topology) :
        FindConnectedComponents(i, frames)

SpecDetect == InitDetect /\ [][NextDetect]_vars

IsDetection == ret.op = "_find_connected_components"

(***************************************************************************)
(* C28: component detection ends on every subgraph, cycles and self-loops  *)
(* included, with dfs entered exactly once for every node and every node   *)
(* in exactly one component.                                               *)
(***************************************************************************)
C28_DetectionEndsWithEveryNodeAssigned ==
    IsDetection =>
        LET nodes == PresentMembers(ret.vlan_id) IN
        /\ "components" \in DOMAIN ret.value
        /\ Range(ret.value.entered) = nodes
        /\ Len(ret.value.entered) = Cardinality(nodes)
        /\ \A n \in nodes :
               Cardinality({k \in 1..Len(ret.value.components) :
                               n \in ret.value.components[k]}) = 1
        /\ \A k \in 1..Len(ret.value.components) : ret.value.components[k] \subseteq nodes

(***************************************************************************)
(* verify_algorithm.py, AlgorithmVerification: the adjacency map of the    *)
(* links and the breadth-first and union-find detections, run on           *)
(* set(vlan.devices).  Python sets are iterated here in the order of the   *)
(* VLAN's member list.                                                     *)
(***************************************************************************)
has_device_links(topo, device) ==
    \E k \in 1..Len(topo.links) :
        topo.links[k].source = device \/ topo.links[k].target = device

device_links(topo, device) ==
    {topo.links[k].target : k \in {j \in 1..Len(topo.links) : topo.links[j].source = device}}
    \cup
    {topo.links[k].source : k \in {j \in 1..Len(topo.links) : topo.links[j].target = device}}

(* The neighbours of current that are VLAN devices and not yet visited.    *)
bfs_fresh(topo, device_list, current, visited) ==
    SelectSeq(device_list,
              LAMBDA d : d \in device_links(topo, current) /\ d \notin visited)

RECURSIVE bfs_drain(_, _, _, _)
bfs_drain(topo, device_list, queue, st) ==
    IF Len(queue) = 0 THEN st
    ELSE LET fresh == bfs_fresh(topo, device_list, Head(queue), st.visited)
             next == [visited   |-> st.visited \cup Range(fresh),
                      component |-> st.component \cup Range(fresh)]
         IN  bfs_drain(topo, device_list, Tail(queue) \o fresh, next)

RECURSIVE bfs_loop(_, _, _, _, _)
bfs_loop(topo, device_list, i, visited, components) ==
    IF i > Len(device_list) THEN components
    ELSE LET start_device == device_list[i] IN
         IF start_device \notin visited
         THEN LET st == bfs_drain(topo, device_list, <<start_device>>,
                                  [visited   |-> visited \cup {start_device},
                                   component |-> {start_device}])
              IN  bfs_loop(topo, device_list, i + 1, st.visited,
                           Append(components, st.component))
         ELSE bfs_loop(topo, device_list, i + 1, visited, components)

bfs_connected_components(topo, device_list) ==
    bfs_loop(topo, device_list, 1, {}, <<>>)

(* find with path compression: the root of x and the parents afterwards.   *)
RECURSIVE find(_, _)
find(parent, x) ==
    IF parent[x] # x
    THEN LET up == find(parent, parent[x])
         IN  [parent |-> [up.parent EXCEPT ![x] = up.root], root |-> up.root]
    ELSE [parent |-> parent, root |-> x]

(* union by rank; uf = [parent, rank].                                     *)
union(uf, x, y) ==
    LET fx == find(uf.parent, x)
        fy == find(fx.parent, y)
        px == fx.root
        py == fy.root
    IN  IF px = py THEN [parent |-> fy.parent, rank |-> uf.rank]
        ELSE IF uf.rank[px] < uf.rank[py]
             THEN [parent |-> [fy.parent EXCEPT ![px] = py], rank |-> uf.rank]
        ELSE IF uf.rank[px] > uf.rank[py]
             THEN [parent |-> [fy.parent EXCEPT ![py] = px], rank |-> uf.rank]
        ELSE [parent |-> [fy.parent EXCEPT ![py] = px],
              rank   |-> [uf.rank EXCEPT ![px] = @ + 1]]

(* for device in devices: for neighbor in device_links[device]: union      *)
RECURSIVE union_loop(_, _, _, _, _)
union_loop(topo, device_list, uf, a, b) ==
    IF a > Len(device_list) THEN uf
    ELSE IF b > Len(device_list) THEN union_loop(topo, device_list, uf, a + 1, 1)
    ELSE IF /\ has_device_links(topo, device_list[a])
            /\ device_list[b] \in device_links(topo, device_list[a])
         THEN union_loop(topo, device_list, union(uf, a, b), a, b + 1)
         ELSE union_loop(topo, device_list, uf, a, b + 1)

union_find_components(topo, device_list) ==
    LET n == Len(device_list)
        uf == union_loop(topo, device_list,
                         [parent |-> [i \in 1..n |-> i], rank |-> [i \in 1..n |-> 0]], 1, 1)
        root == [i \in 1..n |-> find(uf.parent, i).root]
        firsts == SelectSeq([i \in 1..n |-> i],
                            LAMBDA i : \A j \in 1..(i - 1) : root[j] # root[i])
    IN  [k \in 1..Len(firsts) |->
            {device_list[i] : i \in {j \in 1..n : root[j] = root[firsts[k]]}}]

(***************************************************************************)
(* The analyzer's detection and the two detections of the verification     *)
(* script on the same VLAN of the same topology.                           *)
(***************************************************************************)
VerifyTopologies ==
    {[devices |-> DeviceIds, links |-> l, vlans |-> v]
        : l \in LinkLists, v \in VlanLists(1, AnyMembers)}
    \cup SimpleVariations \cup {SimpleTopology}

InitVerify ==
    /\ topology \in VerifyTopologies
    /\ _vlan_index = build_vlan_index(topology)
    /\ _physical_graph = None
    /\ ret = [op |-> "none"]

VerifyVlanIslands(i) ==
    LET vlan == topology.vlans[i] IN
    /\ ret' = [op |-> "verify_vlan_islands", vlan_id |-> vlan.id,
               value |-> [analyzer |->
                              _find_connected_components(
                                  _get_vlan_subgraph(
                                      physical_graph(_physical_graph, topology), vlan)),
                          bfs |-> bfs_connected_components(topology, vlan.devices),
                          union_find |-> union_find_components(topology, vlan.devices)]]
    /\ _physical_graph' = cache_after(_physical_graph, topology, TRUE)
    /\ UNCHANGED <<topology, _vlan_index>>

NextVerify == \E i \in 1..Len(topology.vlans) : VerifyVlanIslands(i)

SpecVerify == InitVerify /\ [][NextVerify]_vars

IsVerification == ret.op = "verify_vlan_islands"

(***************************************************************************)
(* C26: the analyzer's depth-first detection, the breadth-first detection  *)
(* and the union-find detection give the same number of islands and the    *)
(* same device sets for every VLAN member list over the same links.        *)
(***************************************************************************)
C26_ThreeDetectionsSamePartition ==
    IsVerification =>
        /\ Len(ret.value.bfs) = Len(ret.value.analyzer)
        /\ Len(ret.value.union_find) = Len(ret.value.analyzer)
        /\ Range(ret.value.bfs) = Range(ret.value.analyzer)
        /\ Range(ret.value.union_find) = Range(ret.value.analyzer)

(***************************************************************************)
(* Reports over chains shared by several VLANs, where the recommendations  *)
(* have several VLANs to order.                                            *)
(***************************************************************************)
ReportTopologies ==
    {[devices |-> DeviceIds, links |-> l, vlans |-> v]
        : l \in ChainLists, v \in UNION {VlanLists(c, PrefixMembers) : c \in 1..MaxVlans}}

InitReport ==
    /\ topology \in ReportTopologies
    /\ _vlan_index = build_vlan_index(topology)
    /\ _physical_graph = None
    /\ ret = [op |-> "none"]

NextReport == AnalyzeAllVlans

SpecReport == InitReport /\ [][NextReport]_vars

(***************************************************************************)
(* Vocabulary for the recommendations, read off the topology.              *)
(***************************************************************************)
Recommendations == ret.value.recommendations

LinesOfKind(kind) == SelectSeq(Recommendations, LAMBDA line : line.kind = kind)

NumGroups(S) == Cardinality({JoinedWithin(S, {a}) : a \in S})

ProblematicIds ==
    {topology.vlans[i].id : i \in {j \in 1..Len(topology.vlans) :
        NumGroups(PresentMembers(topology.vlans[j].id)) > 1}}

(* Devices outside the largest group, out of all configured devices.       *)
OutsideMain(vlan_id) ==
    Cardinality(Members(vlan_id)) - LargestGroup(PresentMembers(vlan_id))

RatioLess(v, w) ==
    OutsideMain(v) * Cardinality(Members(w)) < OutsideMain(w) * Cardinality(Members(v))

PositionOf(vlan_id) ==
    CHOOSE i \in 1..Len(topology.vlans) : topology.vlans[i].id = vlan_id

(***************************************************************************)
(* C24: with a problematic VLAN the recommendations are a count line, one  *)
(* line per problematic VLAN with its id, island count and isolated-device *)
(* count, in order of non-increasing fragmentation ratio with equal ratios *)
(* in topology order, then the fixed list of recommended actions.          *)
(***************************************************************************)
C24_OneLinePerProblematicVlanByRatio ==
    (IsReport /\ ProblematicIds # {}) =>
        LET lines == LinesOfKind("vlan")
            n == Cardinality(ProblematicIds)
        IN  /\ Len(lines) = n
            /\ \A v \in ProblematicIds :
                   /\ Cardinality({k \in 1..n : lines[k].vlan_id = v}) = 1
                   /\ \A k \in 1..n :
                          lines[k].vlan_id = v =>
                              /\ lines[k].island_count = NumGroups(PresentMembers(v))
                              /\ lines[k].isolated_devices = OutsideMain(v)
            /\ \A i, j \in 1..n :
                   i < j =>
                       /\ ~RatioLess(lines[i].vlan_id, lines[j].vlan_id)
                       /\ ~RatioLess(lines[j].vlan_id, lines[i].vlan_id)
                              => PositionOf(lines[i].vlan_id) < PositionOf(lines[j].vlan_id)
            /\ Recommendations[1] = [kind |-> "detected", count |-> n]
            /\ SubSeq(Recommendations, 2, n + 1) = lines
            /\ SubSeq(Recommendations, n + 2, n + 1 + Len(RecommendedActions))
                   = RecommendedActions
            /\ Recommendations = _generate_recommendations(ret.value.problematic_vlans)

(* Two problematic VLANs listed against the order of the topology.         *)
C24_Witness ==
    /\ IsReport
    /\ Len(LinesOfKind("vlan")) >= 2
    /\ PositionOf(LinesOfKind("vlan")[1].vlan_id)
           > PositionOf(LinesOfKind("vlan")[2].vlan_id)

(***************************************************************************)
(* C25: there is a priority line exactly when some problematic VLAN has    *)
(* more than half of its devices outside its main island; there is at most *)
(* one, and it names a VLAN of the largest ratio, the one that heads the   *)
(* per-VLAN lines.                                                         *)
(***************************************************************************)
C25_PriorityLineIffWorstAboveHalf ==
    IsReport =>
        LET priority == LinesOfKind("priority") IN
        /\ Len(priority) <= 1
        /\ Len(priority) = 1 <=>
               \E v \in ProblematicIds : 2 * OutsideMain(v) > Cardinality(Members(v))
        /\ Len(priority) = 1 =>
               /\ priority[1].vlan_id \in ProblematicIds
               /\ \A v \in ProblematicIds : ~RatioLess(priority[1].vlan_id, v)
               /\ priority[1].vlan_id = LinesOfKind("vlan")[1].vlan_id

(* A priority line among two problematic VLANs of different ratios.        *)
C25_Witness ==
    /\ IsReport
    /\ Len(LinesOfKind("priority")) = 1
    /\ \E v, w \in ProblematicIds : RatioLess(v, w)

(***************************************************************************)
(* The analyzer over a topology whose device and link lists are changed    *)
(* by its owner between calls (they are plain mutable lists).  Devices     *)
(* come and go at the end of the list at any time; links of the chain are  *)
(* appended and popped once the cache is built.                            *)
(***************************************************************************)
CacheTopologies ==
    {[devices |-> SubSeq(DeviceIds, 1, n), links |-> l, vlans |-> v]
        : n \in 0..NumDevices,
          l \in {c \in ChainLists : Len(c) <= 1},
          v \in UNION {VlanLists(c, {DeviceIds}) : c \in 1..MaxVlans}}

InitCache ==
    /\ topology \in CacheTopologies
    /\ _vlan_index = build_vlan_index(topology)
    /\ _physical_graph = None
    /\ ret = [op |-> "none"]

AppendDevice ==
    /\ Len(topology.devices) < NumDevices
    /\ topology' = [topology EXCEPT
                       !.devices = Append(@, DeviceIds[Len(topology.devices) + 1])]
    /\ UNCHANGED <<_vlan_index, _physical_graph, ret>>

PopDevice ==
    /\ Len(topology.devices) > 0
    /\ topology' = [topology EXCEPT !.devices = SubSeq(@, 1, Len(@) - 1)]
    /\ UNCHANGED <<_vlan_index, _physical_graph, ret>>

AppendLink(k) ==
    /\ _physical_graph # None
    /\ Len(topology.links) < MaxLinks
    /\ topology' = [topology EXCEPT
                       !.links = Append(@, [source |-> DeviceIds[k],
                                            target |-> DeviceIds[k + 1]])]
    /\ UNCHANGED <<_vlan_index, _physical_graph, ret>>

PopLink ==
    /\ _physical_graph # None
    /\ Len(topology.links) > 0
    /\ topology' = [topology EXCEPT !.links = SubSeq(@, 1, Len(@) - 1)]
    /\ UNCHANGED <<_vlan_index, _physical_graph, ret>>

NextCache ==
    \/ AppendDevice
    \/ PopDevice
    \/ \E k \in 1..(NumDevices - 1) : AppendLink(k)
    \/ PopLink
    \/ \E vlan_id \in VlanIds(topology) : AnalyzeVlan(vlan_id)
    \/ AnalyzeAllVlans

SpecCache == InitCache /\ [][NextCache]_vars

(* The cache, once there, is never replaced; when it appears it is the     *)
(* graph of the topology of that moment.                                   *)
CacheBuiltOnce ==
    /\ _physical_graph # None => _physical_graph' = _physical_graph
    /\ (_physical_graph = None /\ _physical_graph' # None) =>
           /\ Range(_physical_graph'[1].nodes) = Present
           /\ \A a, b \in Present : has_edge(_physical_graph'[1], a, b) <=> Linked(a, b)

SameCall ==
    /\ ret.op # "none"
    /\ ret.op = ret'.op
    /\ ret.op = "analyze_vlan" => ret.vlan_id = ret'.vlan_id

(* The part of a report that is the analysis of the VLANs.                 *)
vlan_analysis(report) ==
    [vlan_results |-> report.vlan_results,
     problematic_vlans |-> report.problematic_vlans,
     total_islands |-> report.total_islands,
     recommendations |-> report.recommendations]

(***************************************************************************)
(* C23 as stated: the physical graph is built at most once, on the first   *)
(* access, and a call repeated after devices or links were added or        *)
(* removed returns what it returned before, the whole report included.     *)
(***************************************************************************)
C23_LaterResultsIgnoreTopologyChanges ==
    [][CacheBuiltOnce /\ (SameCall => ret'.value = ret.value)]_vars

(***************************************************************************)
(* C23, amended: the physical graph is built at most once, on the first    *)
(* access; a repeated analyze_vlan returns what it returned before, and a  *)
(* repeated analyze_all_vlans returns the same per-VLAN results, totals    *)
(* and recommendations, while its topology_summary counts the devices and  *)
(* links the topology has at the time of the call.                         *)
(***************************************************************************)
C23_LaterVlanAnalysisIgnoresTopologyChanges ==
    [][/\ CacheBuiltOnce
       /\ (SameCall /\ ret.op = "analyze_vlan") => ret'.value = ret.value
       /\ (SameCall /\ ret.op = "analyze_all_vlans") =>
              vlan_analysis(ret'.value) = vlan_analysis(ret.value)
       /\ (ret' # ret /\ ret'.op = "analyze_all_vlans") =>
              ret'.value.topology_summary = get_statistics(topology)]_vars

(* A call made when the topology no longer was the one the cache was built *)
(* from returned islands that an analysis of the topology as it is would   *)
(* not return.                                                             *)
C23_Witness ==
    /\ IsVlanResult
    /\ ~ret.current
    /\ ret.value # analyze_vlan(None, topology, _vlan_index, ret.vlan_id)

(***************************************************************************)
(* The four public operations side by side, and a caller that takes a      *)
(* VLAN subgraph and empties it.  _get_vlan_subgraph returns               *)
(* physical_graph.subgraph(...).copy(): a graph with node and adjacency    *)
(* dictionaries of its own, so clear() on it empties those and not the     *)
(* dictionaries of the physical graph.                                     *)
(***************************************************************************)
FrameTopologies ==
    {[devices |-> DeviceIds, links |-> l, vlans |-> v]
        : l \in ChainLists, v \in VlanLists(1, AnyMembers)}
    \cup {SimpleTopology}

InitFrame ==
    /\ topology \in FrameTopologies
    /\ _vlan_index = build_vlan_index(topology)
    /\ _physical_graph = None
    /\ ret = [op |-> "none"]

ClearSubgraph ==
    /\ ret.op = "_get_vlan_subgraph"
    /\ ret' = [op |-> "clear", vlan_id |-> ret.vlan_id, cleared |-> ret.value,
               value |-> EmptyGraph]
    /\ UNCHANGED <<topology, _vlan_index, _physical_graph>>

NextFrame ==
    \/ \E vlan_id \in VlanIds(topology) : AnalyzeVlan(vlan_id)
    \/ AnalyzeAllVlans
    \/ \E source_device \in CallIds(topology), target_device \in CallIds(topology),
          vlan_id \in VlanIds(topology) :
           FindConnectionPaths(source_device, target_device, vlan_id, FALSE)
    \/ \E vlan_id \in VlanIds(topology) : GetIslandConnectivitySuggestions(vlan_id)
    \/ \E i \in 1..Len(topology.vlans) : GetVlanSubgraph(i)
    \/ ClearSubgraph

SpecFrame == InitFrame /\ [][NextFrame]_vars

(***************************************************************************)
(* C27: analyze_vlan, analyze_all_vlans, find_connection_paths and         *)
(* get_island_connectivity_suggestions leave the topology unchanged and    *)
(* leave the cached physical graph as it was, nodes and edges, once it is  *)
(* there; when a call creates it, it is the graph of the topology; and a   *)
(* caller emptying the VLAN subgraph it was given changes neither.         *)
(***************************************************************************)
C27_OperationsLeaveTopologyAndCache ==
    [][/\ topology' = topology
       /\ _vlan_index' = _vlan_index
       /\ _physical_graph # None => _physical_graph' = _physical_graph
       /\ (_physical_graph = None /\ _physical_graph' # None) =>
              /\ Range(_physical_graph'[1].nodes) = Present
              /\ \A a, b \in Present :
                     has_edge(_physical_graph'[1], a, b) <=> Linked(a, b)]_vars

(* A caller emptied a subgraph that had an edge; the physical graph still  *)
(* has its nodes and that edge.                                            *)
C27_Witness ==
    /\ ret.op = "clear"
    /\ number_of_edges(ret.cleared) > 0
    /\ _physical_graph # None
    /\ \E a, b \in Range(ret.cleared.nodes) :
           /\ a # b
           /\ has_edge(ret.cleared, a, b)
           /\ has_edge(_physical_graph[1], a, b)

(***************************************************************************)
(* The physical_graph property step by step, with two callers.             *)
(* _build_physical_graph first assigns an empty nx.Graph() to the field    *)
(* and then fills that graph in place, one add_node per device and one     *)
(* add_edge per link, reading the field at every step.  add_edge is called *)
(* with link_type=, speed= and **link.metadata: a metadata key that is one *)
(* of these two names makes the call raise TypeError before the edge is    *)
(* added.  ret holds each caller's position: pc, loop index i, and the     *)
(* graph it was handed.                                                    *)
(***************************************************************************)
Callers == {"first", "second"}

EdgeKeywords == {"link_type", "speed"}

add_edge_raises(link) == link.metadata \cap EdgeKeywords # {}

MetadataKeys == {{}, {"speed"}}

BuildLinkLists ==
    UNION {{[i \in 1..Len(c) |-> [source |-> c[i].source, target |-> c[i].target,
                                  metadata |-> m[i]]]
               : m \in [1..Len(c) -> MetadataKeys]} : c \in ChainLists}

BuildTopologies ==
    {[devices |-> DeviceIds, links |-> l, vlans |-> <<>>] : l \in BuildLinkLists}

InitBuild ==
    /\ topology \in BuildTopologies
    /\ _vlan_index = build_vlan_index(topology)
    /\ _physical_graph = None
    /\ ret = [op |-> "physical_graph",
              callers |-> [c \in Callers |-> [pc |-> "idle", i |-> 0, value |-> None]]]

at(c, pc) == ret.callers[c].pc = pc

goto(c, pc, i) == ret' = [ret EXCEPT !.callers[c].pc = pc, !.callers[c].i = i]

(* if self._physical_graph is None:                                        *)
TestCache(c) ==
    /\ at(c, "idle")
    /\ goto(c, IF _physical_graph = None THEN "assign" ELSE "return", 0)
    /\ UNCHANGED <<topology, _vlan_index, _physical_graph>>

(* self._physical_graph = nx.Graph()                                       *)
AssignEmptyGraph(c) ==
    /\ at(c, "assign")
    /\ _physical_graph' = Some(EmptyGraph)
    /\ goto(c, "devices", 1)
    /\ UNCHANGED <<topology, _vlan_index>>

AddNextDevice(c) ==
    /\ at(c, "devices")
    /\ ret.callers[c].i <= Len(topology.devices)
    /\ _physical_graph' =
           Some(add_node(_physical_graph[1], topology.devices[ret.callers[c].i]))
    /\ goto(c, "devices", ret.callers[c].i + 1)
    /\ UNCHANGED <<topology, _vlan_index>>

DevicesDone(c) ==
    /\ at(c, "devices")
    /\ ret.callers[c].i > Len(topology.devices)
    /\ goto(c, "links", 1)
    /\ UNCHANGED <<topology, _vlan_index, _physical_graph>>

AddNextLink(c) ==
    /\ at(c, "links")
    /\ ret.callers[c].i <= Len(topology.links)
    /\ LET link == topology.links[ret.callers[c].i] IN
       IF add_edge_raises(link)
       THEN /\ goto(c, "raised", ret.callers[c].i)
            /\ UNCHANGED _physical_graph
       ELSE /\ _physical_graph' =
                   Some(add_edge(_physical_graph[1], link.source, link.target))
            /\ goto(c, "links", ret.callers[c].i + 1)
    /\ UNCHANGED <<topology, _vlan_index>>

LinksDone(c) ==
    /\ at(c, "links")
    /\ ret.callers[c].i > Len(topology.links)
    /\ goto(c, "return", 0)
    /\ UNCHANGED <<topology, _vlan_index, _physical_graph>>

(* return self._physical_graph                                             *)
ReturnGraph(c) ==
    /\ at(c, "return")
    /\ ret' = [ret EXCEPT !.callers[c].pc = "returned",
                          !.callers[c].value = _physical_graph]
    /\ UNCHANGED <<topology, _vlan_index, _physical_graph>>

NextBuild ==
    \E c \in Callers :
        \/ TestCache(c)
        \/ AssignEmptyGraph(c)
        \/ AddNextDevice(c)
        \/ DevicesDone(c)
        \/ AddNextLink(c)
        \/ LinksDone(c)
        \/ ReturnGraph(c)

SpecBuild == InitBuild /\ [][NextBuild]_vars

(* Every device is a node and every link an edge.                          *)
IsWholeGraph(graph) ==
    /\ Range(topology.devices) \subseteq Range(graph.nodes)
    /\ \A i \in 1..Len(topology.links) :
           /\ topology.links[i].source \in Range(graph.nodes)
           /\ topology.links[i].target \in Range(graph.nodes)
           /\ has_edge(graph, topology.links[i].source, topology.links[i].target)

(***************************************************************************)
(* C29: whenever the _physical_graph field is set, for any caller, while   *)
(* another caller is building or after a build that raised, the graph in   *)
(* it has every device as a node and every link as an edge.                *)
(***************************************************************************)
C29_CacheNeverPartiallyBuilt ==
    _physical_graph # None => IsWholeGraph(_physical_graph[1])

(***************************************************************************)
(* VLAN.devices under construction, add_device and remove_device.          *)
(* A device identifier is a text: a core with some blanks before and after *)
(* it; two texts are the same string exactly when all three agree.  The    *)
(* text of no core is written with its blanks in front.                    *)
(***************************************************************************)
Paddings == {0, 1}

Text(lead, core, trail) == [lead |-> lead, core |-> core, trail |-> trail]

(* str.strip()                                                             *)
strip(text) == Text(0, text.core, 0)

(* A string is true in a condition unless it is empty.                     *)
truthy(text) == ~(text.core = "" /\ text.lead = 0 /\ text.trail = 0)

Texts ==
    {Text(l, DeviceIds[i], t) : l \in Paddings, t \in Paddings, i \in 1..NumDevices}
    \cup {Text(l, "", 0) : l \in Paddings}

(* list(set(device.strip() for device in v if device and device.strip())) *)
(* as a set; the list enumerates it in an order the set chooses.           *)
validate_devices(v) ==
    {strip(v[i]) : i \in {j \in 1..Len(v) : truthy(v[j]) /\ truthy(strip(v[j]))}}

Orderings(S) ==
    {f \in [1..Cardinality(S) -> S] : \A i, j \in 1..Cardinality(S) : f[i] = f[j] => i = j}

add_device(devices, device_id) ==
    IF truthy(device_id) /\ truthy(strip(device_id)) /\ ~Contains(devices, device_id)
    THEN Append(devices, strip(device_id))
    ELSE devices

(* list.remove: the first occurrence goes; ValueError when there is none.  *)
list_remove(devices, device_id) ==
    LET first == CHOOSE i \in 1..Len(devices) :
                     devices[i] = device_id /\ \A j \in 1..(i - 1) : devices[j] # device_id
    IN  SubSeq(devices, 1, first - 1) \o SubSeq(devices, first + 1, Len(devices))

remove_device(devices, device_id) ==
    IF Contains(devices, device_id)
    THEN [devices |-> list_remove(devices, device_id), value |-> TRUE]
    ELSE [devices |-> devices, value |-> FALSE]

(* The lists a VLAN is constructed from, and the longest list followed.    *)
ConstructionInputs == UNION {[1..n -> Texts] : n \in 0..2}

MaxMembers == NumDevices + 1

VlanOf(devices) ==
    [devices |-> <<>>, links |-> <<>>, vlans |-> <<[id |-> VlanIdAt(1), devices |-> devices]>>]

InitVlan ==
    /\ \E v \in ConstructionInputs :
           \E devices \in Orderings(validate_devices(v)) : topology = VlanOf(devices)
    /\ _vlan_index = build_vlan_index(topology)
    /\ _physical_graph = None
    /\ ret = [op |-> "none"]

AddDevice(device_id) ==
    LET before == topology.vlans[1].devices IN
    /\ Len(before) < MaxMembers
    /\ topology' = VlanOf(add_device(before, device_id))
    /\ _vlan_index' = build_vlan_index(topology')
    /\ ret' = [op |-> "add_device", device_id |-> device_id, before |-> before]
    /\ UNCHANGED _physical_graph

RemoveDevice(device_id) ==
    LET before == topology.vlans[1].devices
        done == remove_device(before, device_id)
    IN  /\ topology' = VlanOf(done.devices)
        /\ _vlan_index' = build_vlan_index(topology')
        /\ ret' = [op |-> "remove_device", device_id |-> device_id, before |-> before,
                   value |-> done.value]
        /\ UNCHANGED _physical_graph

NextVlan ==
    \E device_id \in Texts :
        \/ AddDevice(device_id)
        \/ RemoveDevice(device_id)

SpecVlan == InitVlan /\ [][NextVlan]_vars

VlanDevices == topology.vlans[1].devices

(***************************************************************************)
(* C21: after construction and after every add_device and remove_device    *)
(* the device list holds trimmed identifiers and none of them twice;       *)
(* add_device of a device that is there already, in whatever padded        *)
(* spelling, leaves the list as it was; remove_device returns true exactly *)
(* when the device was in the list, and the device is not in it afterwards.*)
(***************************************************************************)
C21_DeviceListStaysDeduplicated ==
    /\ \A i, j \in 1..Len(VlanDevices) : VlanDevices[i] = VlanDevices[j] => i = j
    /\ \A i \in 1..Len(VlanDevices) :
           VlanDevices[i] = strip(VlanDevices[i]) /\ truthy(VlanDevices[i])
    /\ (ret.op = "add_device" /\ Contains(ret.before, strip(ret.device_id)))
           => VlanDevices = ret.before
    /\ ret.op = "remove_device" =>
           /\ ret.value <=> Contains(ret.before, ret.device_id)
           /\ ~Contains(VlanDevices, ret.device_id)

(***************************************************************************)
(* NetworkTopologyParser.parse_from_dict with the validators of Device,    *)
(* Link, VLAN and NetworkTopology, and NetworkTopology.validate_topology.  *)
(* Of a device only its id is kept, of a link its endpoints, of a VLAN its *)
(* id and devices; identifiers are texts.                                  *)
(***************************************************************************)
MinVlanId == 1
MaxVlanId == 4094

NetworkParseError == "NetworkParseError"

RequiredKeys == {"devices", "links", "vlans"}

(* Device.validate_id and Link.validate_endpoints: empty or blank raises.  *)
valid_identifier(text) == truthy(text) /\ truthy(strip(text))

valid_device(device_data) == valid_identifier(device_data)

valid_link(link_data) ==
    valid_identifier(link_data.source) /\ valid_identifier(link_data.target)

valid_vlan(vlan_data) == vlan_data.id >= MinVlanId /\ vlan_data.id <= MaxVlanId

parse_device(device_data) == strip(device_data)

parse_link(link_data) ==
    [source |-> strip(link_data.source), target |-> strip(link_data.target)]

(* The VLANs the VLAN constructor can give: the device list is the list    *)
(* of a set, in one of its orders.                                         *)
parse_vlans(vlans_data) ==
    LET n == Len(vlans_data)
        lists == UNION {Orderings(validate_devices(vlans_data[k].devices)) : k \in 1..n}
    IN  {[k \in 1..n |-> [id |-> vlans_data[k].id, devices |-> o[k]]]
            : o \in {c \in [1..n -> lists] :
                        \A k \in 1..n :
                            c[k] \in Orderings(validate_devices(vlans_data[k].devices))}}

(* validate_unique_devices, validate_unique_vlans                          *)
unique(ids) == \A i, j \in 1..Len(ids) : ids[i] = ids[j] => i = j

validate_unique_devices(devices) == unique(devices)

validate_unique_vlans(vlans) == unique([k \in 1..Len(vlans) |-> vlans[k].id])

(* Variant: the members of the VLANs are not looked at.                    *)
validate_topology_links_only(topo) ==
    LET device_ids == Range(topo.devices)
        link_errors(link) ==
            (IF link.source \notin device_ids
             THEN <<[kind |-> "source", device |-> link.source]>> ELSE <<>>)
            \o (IF link.target \notin device_ids
                THEN <<[kind |-> "target", device |-> link.target]>> ELSE <<>>)
        RECURSIVE over_links(_)
        over_links(i) ==
            IF i > Len(topo.links) THEN <<>>
            ELSE link_errors(topo.links[i]) \o over_links(i + 1)
    IN  over_links(1)

(* One error per link endpoint and per VLAN member that is no device.      *)
validate_topology(topo) ==
    LET device_ids == Range(topo.devices)
        link_errors(link) ==
            (IF link.source \notin device_ids
             THEN <<[kind |-> "source", device |-> link.source]>> ELSE <<>>)
            \o (IF link.target \notin device_ids
                THEN <<[kind |-> "target", device |-> link.target]>> ELSE <<>>)
        RECURSIVE over_links(_)
        over_links(i) ==
            IF i > Len(topo.links) THEN <<>>
            ELSE link_errors(topo.links[i]) \o over_links(i + 1)
        vlan_errors(vlan) ==
            LET RECURSIVE over_devices(_)
                over_devices(j) ==
                    IF j > Len(vlan.devices) THEN <<>>
                    ELSE (IF vlan.devices[j] \notin device_ids
                          THEN <<[kind |-> "vlan", vlan_id |-> vlan.id,
                                  device |-> vlan.devices[j]]>>
                          ELSE <<>>) \o over_devices(j + 1)
            IN  over_devices(1)
        RECURSIVE over_vlans(_)
        over_vlans(k) ==
            IF k > Len(topo.vlans) THEN <<>>
            ELSE vlan_errors(topo.vlans[k]) \o over_vlans(k + 1)
    IN  over_links(1) \o over_vlans(1)

(* The items of the input as models, when each of them validates.          *)
items_valid(data) ==
    /\ \A i \in 1..Len(data.devices) : valid_device(data.devices[i])
    /\ \A i \in 1..Len(data.links) : valid_link(data.links[i])
    /\ \A k \in 1..Len(data.vlans) : valid_vlan(data.vlans[k])

construct(data, vlans) ==
    [devices |-> [i \in 1..Len(data.devices) |-> parse_device(data.devices[i])],
     links |-> [i \in 1..Len(data.links) |-> parse_link(data.links[i])],
     vlans |-> vlans]

(* NetworkTopology(devices=..., links=..., vlans=...) accepts.             *)
topology_valid(topo) ==
    validate_unique_devices(topo.devices) /\ validate_unique_vlans(topo.vlans)

parse_from_dict(data, vlans) ==
    IF RequiredKeys \ DOMAIN data # {} THEN Raised(NetworkParseError)
    ELSE IF ~items_valid(data) THEN Raised(NetworkParseError)
    ELSE LET topo == construct(data, vlans) IN
         IF ~topology_valid(topo) THEN Raised(NetworkParseError)
         ELSE IF Len(validate_topology(topo)) > 0 THEN Raised(NetworkParseError)
         ELSE [topology |-> topo]

(* The inputs: up to two devices, one link, two VLANs of one member, with  *)
(* padded and empty identifiers and a VLAN id out of range; and inputs     *)
(* that lack a key.                                                        *)
ParseTexts == {Text(0, DeviceIds[1], 0), Text(0, DeviceIds[1], 1),
               Text(0, DeviceIds[2], 0), Text(0, "", 0)}

LinkTexts == {Text(0, DeviceIds[1], 0), Text(0, DeviceIds[2], 0), Text(0, "", 0)}

MemberTexts == {Text(0, DeviceIds[1], 0), Text(0, DeviceIds[1], 1),
                Text(0, DeviceIds[2], 0)}

VlanData ==
    {[id |-> id, devices |-> d]
        : id \in {MinVlanId - 1, VlanIdAt(1), VlanIdAt(2)},
          d \in UNION {[1..n -> MemberTexts] : n \in 0..1}}

ParseInputs ==
    {[devices |-> d, links |-> l, vlans |-> v]
        : d \in UNION {[1..n -> ParseTexts] : n \in 0..2},
          l \in UNION {[1..n -> [source : LinkTexts, target : LinkTexts]] : n \in 0..1},
          v \in UNION {[1..n -> VlanData] : n \in 0..2}}
    \cup {[devices |-> <<>>, links |-> <<>>], [links |-> <<>>, vlans |-> <<>>],
          [devices |-> <<>>, vlans |-> <<>>]}

EmptyTopology == [devices |-> <<>>, links |-> <<>>, vlans |-> <<>>]

InitParse ==
    /\ topology = EmptyTopology
    /\ _vlan_index = build_vlan_index(topology)
    /\ _physical_graph = None
    /\ \E data \in ParseInputs : ret = [op |-> "none", data |-> data]

ParseVlans(data) == IF "vlans" \in DOMAIN data THEN parse_vlans(data.vlans) ELSE {<<>>}

ParseFromDict ==
    /\ ret.op = "none"
    /\ \E vlans \in ParseVlans(ret.data) :
           LET value == parse_from_dict(ret.data, vlans) IN
           /\ ret' = [op |-> "parse_from_dict", data |-> ret.data, value |-> value]
           /\ topology' = IF "topology" \in DOMAIN value THEN value.topology ELSE topology
    /\ UNCHANGED <<_vlan_index, _physical_graph>>

(* The models built by hand, as the tests do, without the parser.          *)
ConstructTopology ==
    /\ ret.op = "none"
    /\ RequiredKeys \subseteq DOMAIN ret.data
    /\ items_valid(ret.data)
    /\ \E vlans \in parse_vlans(ret.data.vlans) :
           /\ topology_valid(construct(ret.data, vlans))
           /\ topology' = construct(ret.data, vlans)
    /\ ret' = [op |-> "NetworkTopology", data |-> ret.data]
    /\ UNCHANGED <<_vlan_index, _physical_graph>>

ValidateTopology ==
    /\ ret.op = "NetworkTopology"
    /\ ret' = [op |-> "validate_topology", data |-> ret.data,
               value |-> validate_topology(topology)]
    /\ UNCHANGED <<topology, _vlan_index, _physical_graph>>

NextParse ==
    \/ ParseFromDict
    \/ ConstructTopology
    \/ ValidateTopology

SpecParse == InitParse /\ [][NextParse]_vars

IsParsed == ret.op = "parse_from_dict" /\ "topology" \in DOMAIN ret.value

(* What the core assumes of a topology.                                    *)
TopologyInvariants(topo) ==
    /\ \A i, j \in 1..Len(topo.devices) : topo.devices[i] = topo.devices[j] => i = j
    /\ \A i, j \in 1..Len(topo.vlans) : topo.vlans[i].id = topo.vlans[j].id => i = j
    /\ \A i \in 1..Len(topo.links) :
           /\ \E d \in 1..Len(topo.devices) : topo.devices[d] = topo.links[i].source
           /\ \E d \in 1..Len(topo.devices) : topo.devices[d] = topo.links[i].target
    /\ \A k \in 1..Len(topo.vlans) :
           \A j \in 1..Len(topo.vlans[k].devices) :
               \E d \in 1..Len(topo.devices) : topo.devices[d] = topo.vlans[k].devices[j]

(* The same of an input, its identifiers read without their padding.       *)
InputViolates(data) ==
    \/ RequiredKeys \ DOMAIN data # {}
    \/ \E i, j \in 1..Len(data.devices) :
           i # j /\ strip(data.devices[i]) = strip(data.devices[j])
    \/ \E i, j \in 1..Len(data.vlans) : i # j /\ data.vlans[i].id = data.vlans[j].id
    \/ \E i \in 1..Len(data.links) :
           \E end \in {data.links[i].source, data.links[i].target} :
               \A d \in 1..Len(data.devices) : strip(data.devices[d]) # strip(end)
    \/ \E k \in 1..Len(data.vlans) :
           \E j \in 1..Len(data.vlans[k].devices) :
               \A d \in 1..Len(data.devices) :
                   strip(data.devices[d]) # strip(data.vlans[k].devices[j])

====
